---- MODULE Spec2Model ----
(***************************************************************************)
(* DID-WBA authentication (package anp_auth): the server-side verifier     *)
(* DidWbaVerifier, the in-memory nonce validator MemoryNonceValidator, the *)
(* payload and signature codec and the access-token helpers.               *)
(*                                                                         *)
(* Text values (DIDs, nonces, fragments, timestamps, signatures) are       *)
(* sequences of tokens, so that Go string concatenation is sequence        *)
(* concatenation and the empty string is <<>>.  Time is in whole seconds.  *)
(***************************************************************************)
EXTENDS Integers, Sequences, FiniteSets, TLC

(***************************************************************************)
(* Bounds of the model.                                                    *)
(***************************************************************************)
MaxMinutes == 7        \* minutes a long-lived verifier is followed for
NumCalls == 2          \* concurrent VerifyAuthHeaderContext calls
MaxClock == 2          \* seconds the wall clock may advance

Calls == 1..NumCalls

(***************************************************************************)
(* Program constants.                                                      *)
(***************************************************************************)
Minute == 60
StatusBadRequest == 400
StatusUnauthorized == 401
StatusForbidden == 403
StatusInternalServerError == 500

DefaultAccessTokenExpiration == 60 * Minute
DefaultTimestampExpiration == 5 * Minute
DefaultDIDCacheExpiration == 15 * Minute
DefaultNonceExpiration == 6 * Minute
DefaultTimestampTolerance == 1 * Minute

\* Durations a caller may configure instead of the defaults (0 = unset).
ShortExpiration == 1

(***************************************************************************)
(* Text helpers.                                                           *)
(***************************************************************************)
EmptyText == <<>>

\* strings.Index(s, tok): the first position of tok in s, 0 when absent.
IndexOf(s, tok) ==
    IF \E i \in 1..Len(s) : s[i] = tok
    THEN CHOOSE i \in 1..Len(s) : s[i] = tok /\ \A j \in 1..(i - 1) : s[j] # tok
    ELSE 0

\* time.Time.Format(time.RFC3339) of a whole second, and time.Parse of a text.
FormatRFC3339(t) == <<"T", t>>
ParseRFC3339(s) ==
    IF Len(s) = 2 /\ s[1] = "T"
    THEN [err |-> FALSE, t |-> s[2]]
    ELSE [err |-> TRUE, t |-> 0]

\* strings.ToLower on the domains of the model, for strings.EqualFold.
ToLower(d) == IF d = "EXAMPLE.COM" THEN "example.com" ELSE d
EqualFold(a, b) == ToLower(a) = ToLower(b)

(***************************************************************************)
(* DID documents and keys.  A secp256k1 key pair is named by one id: the   *)
(* private key "k" signs and the public key "k" verifies.                  *)
(***************************************************************************)
DidA == <<"did:wba:example.com">>
DidB == <<"did:wba:example.com", ":", "user">>
DIDs == {DidA, DidB}

KeyOf(did) == IF did = DidA THEN "keyA" ELSE "keyB"

VerificationMethodEcdsaSecp256k1 == "EcdsaSecp256k1VerificationKey2019"
DefaultVerificationMethodFragment == <<"key-1">>

CreateDIDWBADocument(did, privateKey) ==
    LET verificationMethodID == did \o <<"#">> \o DefaultVerificationMethodFragment
    IN [ID |-> did,
        VerificationMethod |->
            << [id |-> verificationMethodID,
                type |-> VerificationMethodEcdsaSecp256k1,
                controller |-> did,
                publicKeyJwk |-> [kty |-> "EC", crv |-> "secp256k1", key |-> privateKey]] >>,
        Authentication |-> << verificationMethodID >>]

DocOf(did) == CreateDIDWBADocument(did, KeyOf(did))

NoMethod == [id |-> EmptyText, type |-> "", controller |-> EmptyText,
             publicKeyJwk |-> [kty |-> "", crv |-> "", key |-> ""]]
NoDoc == [ID |-> EmptyText, VerificationMethod |-> <<>>, Authentication |-> <<>>]

selectVerificationMethodForFragment(doc, fragment) ==
    IF fragment = EmptyText
    THEN [err |-> TRUE, method |-> NoMethod, fragment |-> EmptyText]
    ELSE LET verificationMethodID == doc.ID \o <<"#">> \o fragment
             hits == {i \in 1..Len(doc.VerificationMethod) :
                         doc.VerificationMethod[i].id = verificationMethodID}
         IN IF hits = {}
            THEN [err |-> TRUE, method |-> NoMethod, fragment |-> EmptyText]
            ELSE [err |-> FALSE,
                  method |-> doc.VerificationMethod[CHOOSE i \in hits : \A j \in hits : i <= j],
                  fragment |-> fragment]

selectVerificationMethod(doc) ==
    IF Len(doc.Authentication) = 0
    THEN [err |-> TRUE, method |-> NoMethod, fragment |-> EmptyText]
    ELSE LET reference == doc.Authentication[1]
             idx == IndexOf(reference, "#")
             fragment == IF idx > 0 THEN SubSeq(reference, idx + 1, Len(reference))
                         ELSE reference
         IN selectVerificationMethodForFragment(doc, fragment)

(***************************************************************************)
(* Payload and signature codec.  SHA-256 is modelled as a collision-free   *)
(* function: a digest records what was hashed and how many times.          *)
(***************************************************************************)
\* authPayload.marshal: the four-field object, JCS-canonicalized.
marshal(payload) ==
    [rounds |-> 0,
     of |-> [nonce |-> payload.Nonce, timestamp |-> payload.Time,
             service |-> payload.Service, did |-> payload.DID]]

Sha256(data) == [rounds |-> data.rounds + 1, of |-> data.of]

\* ecdsa.Sign and ecdsa.Verify over a digest.
EcdsaSign(privateKey, digest) == [key |-> privateKey, digest |-> digest]
EcdsaVerify(publicKey, digest, sig) == sig.key = publicKey /\ sig.digest = digest

\* marshalSignature / unmarshalSignature: fixed-width R||S in base64url.
marshalSignature(sig) == <<"b64", sig>>
IsSignatureText(text) == Len(text) = 2 /\ text[1] = "b64"

signPayload(privateKey, payload) ==
    LET data == marshal(payload)
        digest == Sha256(data)
        finalDigest == Sha256(digest)
    IN marshalSignature(EcdsaSign(privateKey, finalDigest))

\* The wire signature the README (v2) documents: ECDSA(SHA256(payload)).
signPayloadSingleHash(privateKey, payload) ==
    marshalSignature(EcdsaSign(privateKey, Sha256(marshal(payload))))

\* EcdsaSecp256k1VerificationKey2019.VerifySignature
VerifySignature(publicKey, content, signature) ==
    IF ~IsSignatureText(signature)
    THEN FALSE
    ELSE LET digest == Sha256(content)
         IN EcdsaVerify(publicKey, digest, signature[2])

\* CreateVerificationMethod + NewEcdsaSecp256k1VerificationKey2019
CreateVerificationMethod(method) ==
    IF method.type # VerificationMethodEcdsaSecp256k1
    THEN [err |-> TRUE, PublicKey |-> ""]
    ELSE IF method.publicKeyJwk.kty # "EC" \/ method.publicKeyJwk.crv # "secp256k1"
    THEN [err |-> TRUE, PublicKey |-> ""]
    ELSE [err |-> FALSE, PublicKey |-> method.publicKeyJwk.key]

(***************************************************************************)
(* Authorization values.  A value is its scheme, the key="value" pairs the *)
(* header regexp finds in it (in order), and the bearer token.             *)
(***************************************************************************)
NoToken == [sub |-> EmptyText, iat |-> 0, exp |-> 0, key |-> ""]
NoParts == [DID |-> EmptyText, Nonce |-> EmptyText, Timestamp |-> EmptyText,
            VerificationMethod |-> EmptyText, Signature |-> EmptyText]

EmptyAuthorization == [scheme |-> "", matches |-> <<>>, token |-> NoToken]
BearerAuthorization(token) == [scheme |-> "Bearer ", matches |-> <<>>, token |-> token]

\* AuthHeader.String
String(h) ==
    [scheme |-> "DIDWba",
     matches |-> << <<"did", h.DID>>, <<"nonce", h.Nonce>>, <<"timestamp", h.Timestamp>>,
                    <<"verification_method", h.VerificationMethod>>,
                    <<"signature", h.Signature>> >>,
     token |-> NoToken]

\* The value of the last match for a key ("" when the key does not occur).
LastMatch(matches, key) ==
    LET hits == {i \in 1..Len(matches) : matches[i][1] = key}
    IN IF hits = {} THEN EmptyText
       ELSE matches[CHOOSE i \in hits : \A j \in hits : j <= i][2]

parseAuthHeader(header) ==
    IF header.scheme # "DIDWba" \/ Len(header.matches) = 0
    THEN [err |-> TRUE, parts |-> NoParts]
    ELSE LET parts == [DID |-> LastMatch(header.matches, "did"),
                       Nonce |-> LastMatch(header.matches, "nonce"),
                       Timestamp |-> LastMatch(header.matches, "timestamp"),
                       VerificationMethod |-> LastMatch(header.matches, "verification_method"),
                       Signature |-> LastMatch(header.matches, "signature")]
         IN IF parts.DID = EmptyText \/ parts.Nonce = EmptyText
               \/ parts.Timestamp = EmptyText \/ parts.VerificationMethod = EmptyText
               \/ parts.Signature = EmptyText
            THEN [err |-> TRUE, parts |-> NoParts]
            ELSE [err |-> FALSE, parts |-> parts]

\* GenerateAuthHeader, with the nonce newNonce() drew and the time it read.
GenerateAuthHeader(privateKey, doc, serviceDomain, nonce, now) ==
    LET sel == selectVerificationMethod(doc)
        timestamp == FormatRFC3339(now)
        payload == [Nonce |-> nonce, Time |-> timestamp,
                    Service |-> serviceDomain, DID |-> doc.ID]
    IN IF sel.err \/ sel.method.type # VerificationMethodEcdsaSecp256k1
       THEN [err |-> TRUE, header |-> NoParts]
       ELSE [err |-> FALSE,
             header |-> [DID |-> doc.ID, Nonce |-> nonce, Timestamp |-> timestamp,
                         VerificationMethod |-> sel.fragment,
                         Signature |-> signPayload(privateKey, payload)]]

\* A header of a client that signs as the README documents (one SHA-256).
SingleHashAuthHeader(privateKey, doc, serviceDomain, nonce, now) ==
    LET sel == selectVerificationMethod(doc)
        timestamp == FormatRFC3339(now)
        payload == [Nonce |-> nonce, Time |-> timestamp,
                    Service |-> serviceDomain, DID |-> doc.ID]
    IN [DID |-> doc.ID, Nonce |-> nonce, Timestamp |-> timestamp,
        VerificationMethod |-> sel.fragment,
        Signature |-> signPayloadSingleHash(privateKey, payload)]

(***************************************************************************)
(* Access tokens (JWT).  A token is its claims and the key that signed it. *)
(***************************************************************************)
CreateAccessToken(did, privateKey, expiration, now) ==
    [sub |-> did, iat |-> now, exp |-> now + expiration, key |-> privateKey]

\* Mutant: the token's signature is not checked, only its expiry.
VerifyAccessTokenUnsigned(token, publicKey, now) ==
    IF ~(now < token.exp)
    THEN [err |-> TRUE, did |-> EmptyText]
    ELSE [err |-> FALSE, did |-> token.sub]

\* jwt.Parse checks the signature and that exp has not passed.
VerifyAccessToken(token, publicKey, now) ==
    IF token.key # publicKey \/ ~(now < token.exp)
    THEN [err |-> TRUE, did |-> EmptyText]
    ELSE [err |-> FALSE, did |-> token.sub]

(***************************************************************************)
(* Errors: the sentinel kind errors.Is matches, the HTTP status carried by *)
(* ErrorWithStatus, and the message text.                                  *)
(***************************************************************************)
NoError == [kind |-> "", status |-> 0, msg |-> ""]
NewErrorWithStatus(kind, statusCode, msg) == [kind |-> kind, status |-> statusCode, msg |-> msg]

Failure(e) == [ok |-> FALSE, err |-> e, did |-> EmptyText,
               access_token |-> NoToken, token_type |-> ""]
Success(did, token, tokenType) ==
    [ok |-> TRUE, err |-> NoError, did |-> did,
     access_token |-> token, token_type |-> tokenType]
NoResult == [ok |-> FALSE, err |-> NoError, did |-> EmptyText,
             access_token |-> NoToken, token_type |-> ""]

(***************************************************************************)
(* Verifier configuration.                                                 *)
(***************************************************************************)
\* strings.TrimSpace on the allow-list entries of the model.
TrimSpace(d) == IF d = " example.com " THEN "example.com" ELSE d

BaseConfig ==
    [NonceValidator |-> "memory", NonceExpiration |-> DefaultNonceExpiration,
     JWTPrivateKey |-> "jwt", JWTPublicKey |-> "jwt",
     JWTPrivateKeyPEM |-> "", JWTPublicKeyPEM |-> "",
     AccessTokenExpiration |-> 0, TimestampExpiration |-> 0, DIDCacheExpiration |-> 0,
     AllowedDomains |-> <<>>, ResolveDIDDocument |-> "default"]

\* Configurations that differ from BaseConfig in one respect.
Variants ==
    {BaseConfig,
     [BaseConfig EXCEPT !.NonceValidator = "external"],
     [BaseConfig EXCEPT !.NonceExpiration = ShortExpiration],
     [BaseConfig EXCEPT !.JWTPrivateKey = "nil", !.JWTPublicKey = "nil"],
     [BaseConfig EXCEPT !.JWTPrivateKey = "nil", !.JWTPrivateKeyPEM = "garbage"],
     [BaseConfig EXCEPT !.TimestampExpiration = ShortExpiration],
     [BaseConfig EXCEPT !.AllowedDomains = <<" example.com ">>]}

\* Every variant, with and without a nonce validator.
Configs == Variants \cup {[cfg EXCEPT !.NonceValidator = "nil"] : cfg \in Variants}

\* LoadJWTPrivateKeyFromPEM / LoadJWTPublicKeyFromPEM
LoadJWTKeyFromPEM(pemBytes) ==
    IF pemBytes = "pem" THEN [err |-> FALSE, key |-> "jwt"] ELSE [err |-> TRUE, key |-> "nil"]

\* NewDidWbaVerifier after the validator check: defaults and key loading.
applyDefaults(config) ==
    LET c1 == [config EXCEPT
                 !.AccessTokenExpiration =
                     IF @ = 0 THEN DefaultAccessTokenExpiration ELSE @,
                 !.TimestampExpiration =
                     IF @ = 0 THEN DefaultTimestampExpiration ELSE @,
                 !.DIDCacheExpiration =
                     IF @ = 0 THEN DefaultDIDCacheExpiration ELSE @]
        loadPriv == c1.JWTPrivateKey = "nil" /\ c1.JWTPrivateKeyPEM # ""
        priv == LoadJWTKeyFromPEM(c1.JWTPrivateKeyPEM)
        c2 == IF loadPriv /\ ~priv.err THEN [c1 EXCEPT !.JWTPrivateKey = priv.key] ELSE c1
        loadPub == c2.JWTPublicKey = "nil" /\ c2.JWTPublicKeyPEM # ""
        pub == LoadJWTKeyFromPEM(c2.JWTPublicKeyPEM)
        c3 == IF loadPub /\ ~pub.err THEN [c2 EXCEPT !.JWTPublicKey = pub.key] ELSE c2
    IN IF loadPriv /\ priv.err
       THEN [state |-> "failed", config |-> config, err |-> "loading JWT private key"]
       ELSE IF loadPub /\ pub.err
       THEN [state |-> "failed", config |-> config, err |-> "loading JWT public key"]
       ELSE [state |-> "ready", config |-> c3, err |-> ""]

\* Mutant: the constructor of v1, which accepted a missing validator.
NewDidWbaVerifierNoCheck(config) == applyDefaults(config)

NewDidWbaVerifier(config) ==
    IF config.NonceValidator = "nil"
    THEN [state |-> "failed", config |-> config, err |-> "nonce_validator_missing"]
    ELSE applyDefaults(config)

NoVerifier == [state |-> "none", config |-> BaseConfig, err |-> ""]

(***************************************************************************)
(* The verifier's steps, as functions of what they read.                   *)
(***************************************************************************)
\* Mutant: the allow-list is not consulted.
ensureDomainAllowedOff(config, domain) == NoError

ensureDomainAllowed(config, domain) ==
    IF Len(config.AllowedDomains) = 0
    THEN NoError
    ELSE IF \E i \in 1..Len(config.AllowedDomains) :
                EqualFold(TrimSpace(config.AllowedDomains[i]), domain)
    THEN NoError
    ELSE NewErrorWithStatus("domain_not_allowed", StatusForbidden, "domain not allowed")

\* Mutant: a timestamp exactly TimestampExpiration old is expired.
verifyTimestampInclusive(config, timestampStr, now) ==
    LET parsed == ParseRFC3339(timestampStr)
    IN IF parsed.err
       THEN NewErrorWithStatus("timestamp_invalid", StatusBadRequest, "parse timestamp")
       ELSE IF parsed.t > now + DefaultTimestampTolerance
       THEN NewErrorWithStatus("timestamp_future", StatusBadRequest, "timestamp is in the future")
       ELSE IF now - parsed.t >= config.TimestampExpiration
       THEN NewErrorWithStatus("timestamp_expired", StatusUnauthorized, "timestamp expired")
       ELSE NoError

\* Mutant: the future tolerance is a fifth of the configured expiration.
verifyTimestampScaledTolerance(config, timestampStr, now) ==
    LET parsed == ParseRFC3339(timestampStr)
    IN IF parsed.err
       THEN NewErrorWithStatus("timestamp_invalid", StatusBadRequest, "parse timestamp")
       ELSE IF parsed.t > now + (config.TimestampExpiration \div 5)
       THEN NewErrorWithStatus("timestamp_future", StatusBadRequest, "timestamp is in the future")
       ELSE IF now - parsed.t > config.TimestampExpiration
       THEN NewErrorWithStatus("timestamp_expired", StatusUnauthorized, "timestamp expired")
       ELSE NoError

verifyTimestamp(config, timestampStr, now) ==
    LET parsed == ParseRFC3339(timestampStr)
        requestTime == parsed.t
        currentTime == now
    IN IF parsed.err
       THEN NewErrorWithStatus("timestamp_invalid", StatusBadRequest, "parse timestamp")
       ELSE IF requestTime > currentTime + DefaultTimestampTolerance
       THEN NewErrorWithStatus("timestamp_future", StatusBadRequest, "timestamp is in the future")
       ELSE IF currentTime - requestTime > config.TimestampExpiration
       THEN NewErrorWithStatus("timestamp_expired", StatusUnauthorized, "timestamp expired")
       ELSE NoError

\* Mutant: a validator error is reported as a rejected nonce.
verifyNonceAllUnauthorized(answer) ==
    IF answer # "true"
    THEN NewErrorWithStatus("nonce_invalid", StatusUnauthorized, "invalid or expired nonce")
    ELSE NoError

\* The validator's answer ("true", "false" or "error") as verifyNonce maps it.
verifyNonce(answer) ==
    IF answer = "error"
    THEN NewErrorWithStatus("nonce_validator_failure", StatusInternalServerError, "validate nonce")
    ELSE IF answer # "true"
    THEN NewErrorWithStatus("nonce_invalid", StatusUnauthorized, "invalid or expired nonce")
    ELSE NoError

\* (isValid, message) of DidWbaVerifier.verifySignature
\* Mutant: the payload is rebuilt with the verifier's own host as service,
\* not with the domain of the request.
verifySignatureOwnHost(authHeader, doc, serviceDomain) ==
    LET parsed == parseAuthHeader(authHeader)
        parts == parsed.parts
        sel == selectVerificationMethodForFragment(doc, parts.VerificationMethod)
        verifier == CreateVerificationMethod(sel.method)
        payload == [Nonce |-> parts.Nonce, Time |-> parts.Timestamp,
                    Service |-> "example.com", DID |-> parts.DID]
    IN IF parsed.err \/ parts.DID # doc.ID \/ sel.err \/ verifier.err
       THEN [isValid |-> FALSE, message |-> "Signature verification failed"]
       ELSE IF VerifySignature(verifier.PublicKey, marshal(payload), parts.Signature)
       THEN [isValid |-> TRUE, message |-> "Verification successful"]
       ELSE [isValid |-> FALSE, message |-> "Signature verification failed"]

verifySignature(authHeader, doc, serviceDomain) ==
    LET parsed == parseAuthHeader(authHeader)
        parts == parsed.parts
        sel == selectVerificationMethodForFragment(doc, parts.VerificationMethod)
        verifier == CreateVerificationMethod(sel.method)
        payload == [Nonce |-> parts.Nonce, Time |-> parts.Timestamp,
                    Service |-> serviceDomain, DID |-> parts.DID]
        payloadBytes == marshal(payload)
    IN IF parsed.err THEN [isValid |-> FALSE, message |-> "invalid auth header format"]
       ELSE IF parts.DID # doc.ID THEN [isValid |-> FALSE, message |-> "DID mismatch"]
       ELSE IF sel.err
       THEN [isValid |-> FALSE, message |-> "Verification method not found"]
       ELSE IF verifier.err
       THEN [isValid |-> FALSE, message |-> "Failed to create verifier"]
       ELSE IF VerifySignature(verifier.PublicKey, payloadBytes, parts.Signature)
       THEN [isValid |-> TRUE, message |-> "Verification successful"]
       ELSE [isValid |-> FALSE, message |-> "Signature verification failed"]

handleBearerAuth(config, authorization, now) ==
    LET verified == VerifyAccessToken(authorization.token, config.JWTPublicKey, now)
    IN IF config.JWTPublicKey = "nil"
       THEN Failure(NewErrorWithStatus("jwt_config_missing", StatusInternalServerError,
                                       "JWT key not configured"))
       ELSE IF verified.err
       THEN Failure(NewErrorWithStatus("invalid_token", StatusUnauthorized,
                                       "verify access token"))
       ELSE Success(verified.did, NoToken, "")

\* The tail of handleDidAuth, from the signature check on.
issueToken(config, authorization, doc, domain, now) ==
    LET checked == verifySignature(authorization, doc, domain)
        did == parseAuthHeader(authorization).parts.DID
    IN IF ~checked.isValid
       THEN Failure(NewErrorWithStatus("invalid_signature", StatusForbidden, checked.message))
       ELSE IF config.JWTPrivateKey = "nil"
       THEN Failure(NewErrorWithStatus("jwt_config_missing", StatusInternalServerError,
                                       "JWT key not configured"))
       ELSE Success(did,
                    CreateAccessToken(did, config.JWTPrivateKey,
                                      config.AccessTokenExpiration, now),
                    "bearer")

(***************************************************************************)
(* MemoryNonceValidator.                                                   *)
(***************************************************************************)
\* Mutant: the key of v1, the nonce alone.
NonceKeyNonceOnly(did, nonce) == nonce

NonceKey(did, nonce) == did \o <<":">> \o nonce

\* Mutant: the accepted nonce is not recorded.
ValidateForgetful(usedMap, expiration, did, nonce, now) ==
    LET key == NonceKey(did, nonce)
        kept == {k \in DOMAIN usedMap : ~(now - usedMap[k] > expiration)}
    IN [ok |-> key \notin kept, used |-> [k \in kept |-> usedMap[k]]]

\* Validate: evict what is older than the expiration, then look the key up.
Validate(usedMap, expiration, did, nonce, now) ==
    LET key == NonceKey(did, nonce)
        kept == {k \in DOMAIN usedMap : ~(now - usedMap[k] > expiration)}
        exists == key \in kept
    IN [ok |-> ~exists,
        used |-> [k \in (IF exists THEN kept ELSE kept \cup {key}) |->
                     IF k = key /\ ~exists THEN now ELSE usedMap[k]]]

(***************************************************************************)
(* The requests of the model: Authorization values and request domains.    *)
(***************************************************************************)
Nonce1 == <<"n1">>
Nonce2 == <<"user", ":", "n1">>
Nonces == {Nonce1, Nonce2}

ServiceDomain == "example.com"
Domains == {ServiceDomain, "EXAMPLE.COM", "intruder.com"}

\* Headers minted at second 0 for ServiceDomain, by this package's
\* GenerateAuthHeader and by a single-hash client.
Generated(did, nonce) ==
    GenerateAuthHeader(KeyOf(did), DocOf(did), ServiceDomain, nonce, 0).header
SingleHash(did, nonce, now) ==
    SingleHashAuthHeader(KeyOf(did), DocOf(did), ServiceDomain, nonce, now)

\* Single-hash headers minted at the edges of the timestamp window.
EdgeTimes ==
    {0 - DefaultTimestampExpiration, 0 - ShortExpiration, DefaultTimestampTolerance + 1}

\* One well-formed header, changed in one field.
Tampered ==
    LET h == SingleHash(DidA, Nonce1, 0)
    IN {[h EXCEPT !.Timestamp = <<"yesterday">>],
        [h EXCEPT !.Signature = <<"garbage">>],
        [h EXCEPT !.VerificationMethod = <<"key-2">>],
        [h EXCEPT !.VerificationMethod = DidA \o <<"#">> \o DefaultVerificationMethodFragment]}

WireHeaders ==
    {Generated(DidA, Nonce1)}
    \cup {SingleHash(d, n, 0) : d \in DIDs, n \in Nonces}
    \cup {SingleHash(DidA, Nonce1, t) : t \in EdgeTimes}
    \cup Tampered

\* A header without its signature pair, and a value of another scheme.
Malformed ==
    {[String(SingleHash(DidA, Nonce1, 0)) EXCEPT !.matches = SubSeq(@, 1, 4)],
     [scheme |-> "Basic", matches |-> <<>>, token |-> NoToken]}

ForgedToken == CreateAccessToken(DidA, "forged", DefaultAccessTokenExpiration, 0)

(***************************************************************************)
(* The Authenticator: targets, credential files, construction.             *)
(***************************************************************************)
NumGoroutines == 3
Goroutines == 1..NumGoroutines

\* Target URLs as scheme, host and path; url.Parse rejects the last one
\* (an IPv6 host literal without its closing bracket).
TargetA == <<"https://", "a.example", "/api">>
TargetB == <<"https://", "b.example", "/api">>
BadTarget == <<"https://", "[::1", "/api">>
Targets == {TargetA, TargetB, BadTarget}

\* Mutant: no target is rejected.
getDomainLenient(target) ==
    [err |-> FALSE,
     domain |-> IF Len(target) >= 2 /\ target[1] = "https://" THEN target[2] ELSE ""]

\* getDomain: url.Parse, then u.Host ("" for a target without a host).
getDomain(target) ==
    IF IndexOf(target, "[::1") # 0
    THEN [err |-> TRUE, domain |-> ""]
    ELSE [err |-> FALSE,
          domain |-> IF Len(target) >= 2 /\ target[1] = "https://" THEN target[2] ELSE ""]

\* os.ReadFile followed by the decoder of each file.
ReadFile(path) ==
    IF path = "did.json" THEN [err |-> FALSE, doc |-> DocOf(DidA), key |-> ""]
    ELSE IF path = "key.pem" THEN [err |-> FALSE, doc |-> NoDoc, key |-> KeyOf(DidA)]
    ELSE [err |-> TRUE, doc |-> NoDoc, key |-> ""]

\* Reading the DID document and then, if that went well, the private key:
\* the outcome and the files that were opened.
loadMaterial(cfg) ==
    LET docFile == ReadFile(cfg.DIDDocumentPath)
        keyFile == ReadFile(cfg.PrivateKeyPath)
    IN IF docFile.err \/ docFile.doc = NoDoc
       THEN [err |-> TRUE, doc |-> NoDoc, key |-> "", reads |-> <<cfg.DIDDocumentPath>>]
       ELSE IF keyFile.err \/ keyFile.key = ""
       THEN [err |-> TRUE, doc |-> NoDoc, key |-> "",
             reads |-> <<cfg.DIDDocumentPath, cfg.PrivateKeyPath>>]
       ELSE [err |-> FALSE, doc |-> docFile.doc, key |-> keyFile.key,
             reads |-> <<cfg.DIDDocumentPath, cfg.PrivateKeyPath>>]

\* The Authenticator's fields, whether eager loading was asked for, and the
\* files opened for it so far.
NoAuthenticator ==
    [state |-> "none", cfg |-> [DIDDocumentPath |-> "", PrivateKeyPath |-> ""],
     didDocument |-> NoDoc, privateKey |-> "", loadOnce |-> FALSE, loadErr |-> FALSE,
     eager |-> FALSE, reads |-> <<>>]

\* WithDIDMaterial(doc, privateKey)
WithDIDMaterial(doc, privateKey) ==
    [cfg |-> [DIDDocumentPath |-> "", PrivateKeyPath |-> ""],
     didDocument |-> doc, privateKey |-> privateKey,
     err |-> FALSE, eager |-> FALSE, reads |-> <<>>]

\* WithDIDCfgPaths(didDocPath, privateKeyPath): the files are read on first use.
WithDIDCfgPaths(didDocPath, privateKeyPath) ==
    [cfg |-> [DIDDocumentPath |-> didDocPath, PrivateKeyPath |-> privateKeyPath],
     didDocument |-> NoDoc, privateKey |-> "",
     err |-> FALSE, eager |-> FALSE, reads |-> <<>>]

\* WithEagerLoading() applied after the options in opt: the files are read
\* at construction, and any failure fails the construction.
WithEagerLoading(opt) ==
    IF opt.cfg.DIDDocumentPath = "" \/ opt.cfg.PrivateKeyPath = ""
    THEN [opt EXCEPT !.err = TRUE]
    ELSE LET loaded == loadMaterial(opt.cfg)
         IN IF loaded.err
            THEN [opt EXCEPT !.err = TRUE, !.eager = TRUE, !.reads = @ \o loaded.reads]
            ELSE [opt EXCEPT !.eager = TRUE, !.reads = @ \o loaded.reads,
                             !.didDocument = loaded.doc, !.privateKey = loaded.key]

AuthenticatorOptions ==
    {WithDIDMaterial(DocOf(DidA), KeyOf(DidA)),
     WithDIDCfgPaths("did.json", "key.pem"),
     WithDIDCfgPaths("missing.json", "key.pem")}

NewAuthenticator(opt) ==
    LET hasDirectMaterial == opt.didDocument # NoDoc /\ opt.privateKey # ""
        hasPaths == opt.cfg.DIDDocumentPath # "" /\ opt.cfg.PrivateKeyPath # ""
    IN IF opt.err \/ (~hasDirectMaterial /\ ~hasPaths)
       THEN [NoAuthenticator EXCEPT !.state = "error", !.eager = opt.eager,
                                    !.reads = opt.reads]
       ELSE [state |-> "ready", cfg |-> opt.cfg, didDocument |-> opt.didDocument,
             privateKey |-> opt.privateKey, loadOnce |-> FALSE, loadErr |-> FALSE,
             eager |-> opt.eager, reads |-> opt.reads]

\* Mutant: the files are read on every call.
ensureMaterialEveryCall(a) ==
    IF a.didDocument # NoDoc /\ a.privateKey # "" /\ a.reads = <<>>
    THEN [a EXCEPT !.loadOnce = TRUE]
    ELSE LET loaded == loadMaterial(a.cfg)
         IN IF loaded.err
            THEN [a EXCEPT !.loadOnce = TRUE, !.loadErr = TRUE, !.reads = @ \o loaded.reads]
            ELSE [a EXCEPT !.loadOnce = TRUE, !.reads = @ \o loaded.reads,
                           !.didDocument = loaded.doc, !.privateKey = loaded.key]

\* ensureMaterial: the body runs once; loadErr is returned on every call.
ensureMaterial(a) ==
    IF a.loadOnce THEN a
    ELSE IF a.didDocument # NoDoc /\ a.privateKey # "" THEN [a EXCEPT !.loadOnce = TRUE]
    ELSE LET loaded == loadMaterial(a.cfg)
         IN IF loaded.err
            THEN [a EXCEPT !.loadOnce = TRUE, !.loadErr = TRUE, !.reads = @ \o loaded.reads]
            ELSE [a EXCEPT !.loadOnce = TRUE, !.reads = @ \o loaded.reads,
                           !.didDocument = loaded.doc, !.privateKey = loaded.key]

\* newNonce: a UUID no earlier signature computation drew.
newNonce(n) == <<"uuid", n>>

\* What a call on the Authenticator returns: an error, a header value, or
\* (GenerateJSON) the AuthJSON fields.
NoReturn == [err |-> "", value |-> EmptyAuthorization, json |-> NoParts]
Failed(msg) == [NoReturn EXCEPT !.err = msg]
Returned(value) == [NoReturn EXCEPT !.value = value]

\* Bearer tokens a server may hand out, and Authorization values of responses.
TokenX == CreateAccessToken(DidA, "jwt", DefaultAccessTokenExpiration, 0)
TokenY == CreateAccessToken(DidA, "jwt", DefaultAccessTokenExpiration, 1)
ResponseAuthorizations ==
    {BearerAuthorization(TokenX), BearerAuthorization(TokenY), EmptyAuthorization,
     [scheme |-> "bearer ", matches |-> <<>>, token |-> TokenX]}

NoSnapshot ==
    [tokens |-> <<>>, authHeaders |-> <<>>, signed |-> 0, loadOnce |-> FALSE,
     pending |-> {}]

IdleGoroutine ==
    [pc |-> "idle", op |-> "", target |-> EmptyText, domain |-> "", force |-> FALSE,
     arg |-> EmptyAuthorization, began |-> NoSnapshot, val |-> NoReturn,
     result |-> NoReturn]

(***************************************************************************)
(* Error values as Go builds them: sentinels (errors.New), wrappedAuthError,*)
(* ErrorWithStatus, and errors.Is / errors.As over their Unwrap chains.    *)
(***************************************************************************)
NilError == [tag |-> "nil"]
Sentinel(kind) == [tag |-> "sentinel", kind |-> kind]
PlainError(text) == [tag |-> "plain", text |-> text]

\* Mutant: the cause is returned in place of the wrapper.
WrapAuthErrorAsCause(sentinel, message, err) ==
    IF err = NilError THEN sentinel ELSE err

\* WrapAuthError: Unwrap and Is go to the sentinel, never to the cause.
WrapAuthError(sentinel, message, err) ==
    IF err = NilError THEN sentinel
    ELSE [tag |-> "wrapped", sentinel |-> sentinel, message |-> message, cause |-> err]

\* NewErrorWithStatus on an error value.
ErrorWithStatus(err, statusCode) == [tag |-> "status", Err |-> err, StatusCode |-> statusCode]

\* errors.Is(err, target) for a sentinel target.
RECURSIVE Is(_, _)
Is(err, target) ==
    IF err.tag = "sentinel" THEN err = target
    ELSE IF err.tag = "wrapped" THEN Is(err.sentinel, target)
    ELSE IF err.tag = "status" THEN Is(err.Err, target)
    ELSE FALSE

\* GetStatusCode: errors.As finds the first ErrorWithStatus on the Unwrap chain.
RECURSIVE GetStatusCode(_, _)
GetStatusCode(err, defaultCode) ==
    IF err.tag = "status" THEN err.StatusCode
    ELSE IF err.tag = "wrapped" THEN GetStatusCode(err.sentinel, defaultCode)
    ELSE defaultCode

\* The error value behind a verifier error: its sentinel, with the status it carries.
AsError(e) ==
    IF e.status = 0 THEN Sentinel(e.kind) ELSE ErrorWithStatus(Sentinel(e.kind), e.status)

\* The sentinel kinds, causes, messages and statuses the error helpers are
\* applied to.
Sentinels ==
    {Sentinel(kind) : kind \in {"ErrInvalidToken", "ErrNonceInvalid",
                                "ErrTimestampExpired", "ErrInvalidSignature"}}
Causes ==
    {NilError, PlainError("expired"),
     Sentinel("ErrNonceInvalid"), Sentinel("ErrInvalidToken"),
     ErrorWithStatus(Sentinel("ErrTimestampExpired"), StatusForbidden),
     WrapAuthError(Sentinel("ErrInvalidSignature"), "signature check failed",
                   PlainError("base error"))}
Messages == {"", "token validation failed"}
Statuses == {StatusBadRequest, StatusUnauthorized, StatusForbidden, StatusInternalServerError}
ErrorInputs ==
    [sentinel : Sentinels, message : Messages, cause : Causes,
     statusCode : Statuses, defaultCode : {StatusBadRequest, StatusInternalServerError}]

\* What a caller sees of an error: the sentinels errors.Is matches and the
\* status GetStatusCode reports.
Observed(err, defaultCode) ==
    [err |-> err,
     matches |-> {target \in Sentinels : Is(err, target)},
     code |-> GetStatusCode(err, defaultCode)]

(***************************************************************************)
(* The server middleware and the guards behind it.                         *)
(***************************************************************************)
\* strings.TrimSpace on a DID written with blanks around it.
TrimSpaceText(t) ==
    LET inner == {i \in 1..Len(t) : t[i] # " "}
    IN IF inner = {} THEN EmptyText
       ELSE LET first == CHOOSE i \in inner : \A j \in inner : i <= j
                last == CHOOSE i \in inner : \A j \in inner : j <= i
            IN SubSeq(t, first, last)

\* Mutant: a verifier failure is answered like a success.
MiddlewareLenient(exchange, result) ==
    [exchange EXCEPT !.pc = "next", !.verified = result.ok,
                     !.hasDID = TRUE, !.did = result.did]

\* Middleware after VerifyAuthHeaderContext returned: handleAuthError, or the
\* context and the response header for next.ServeHTTP.
Middleware(exchange, result) ==
    IF ~result.ok
    THEN [exchange EXCEPT !.pc = "done",
                          !.status = GetStatusCode(AsError(result.err), StatusUnauthorized),
                          !.body = result.err.msg]
    ELSE [exchange EXCEPT !.pc = "next", !.verified = TRUE,
                          !.hasDID = TRUE, !.did = result.did,
                          !.hasToken = result.access_token # NoToken,
                          !.access_token = result.access_token,
                          !.responseAuthorization =
                              IF result.access_token # NoToken
                              THEN BearerAuthorization(result.access_token)
                              ELSE EmptyAuthorization]

\* The handlers a route may put behind the middleware: the application's
\* handler itself, RequireDID, or RequireSpecificDID with an allow-list.
PaddedDidA == <<" ">> \o DidA \o <<" ">>
Handler == [kind |-> "handler", allowedDIDs |-> {}]
Guards ==
    {Handler,
     [kind |-> "RequireDID", allowedDIDs |-> {}],
     [kind |-> "RequireSpecificDID", allowedDIDs |-> {}],
     [kind |-> "RequireSpecificDID", allowedDIDs |-> {PaddedDidA}],
     [kind |-> "RequireSpecificDID", allowedDIDs |-> {DidB}]}

\* Mutant: DIDFromContext loses the DID.
DIDFromContextBlank(exchange) == [did |-> EmptyText, ok |-> exchange.hasDID]

\* DIDFromContext / AccessTokenFromContext
DIDFromContext(exchange) == [did |-> exchange.did, ok |-> exchange.hasDID]
AccessTokenFromContext(exchange) == [token |-> exchange.access_token, ok |-> exchange.hasToken]

\* Mutant: a DID outside the allow-list passes.
RequireSpecificDIDOpen(allowedDIDs, exchange) ==
    IF ~DIDFromContext(exchange).ok
    THEN [exchange EXCEPT !.pc = "done", !.status = StatusUnauthorized,
                          !.body = "authentication required"]
    ELSE [exchange EXCEPT !.pc = "done", !.status = 200, !.handler = TRUE]

\* RequireSpecificDID(allowedDIDs...) in front of the application's handler.
RequireSpecificDID(allowedDIDs, exchange) ==
    LET allowed == {TrimSpaceText(d) : d \in allowedDIDs}
    IN IF ~DIDFromContext(exchange).ok
       THEN [exchange EXCEPT !.pc = "done", !.status = StatusUnauthorized,
                             !.body = "authentication required"]
       ELSE IF DIDFromContext(exchange).did \notin allowed
       THEN [exchange EXCEPT !.pc = "done", !.status = StatusForbidden,
                             !.body = "access denied"]
       ELSE [exchange EXCEPT !.pc = "done", !.status = 200, !.handler = TRUE]

\* RequireDID in front of the application's handler.
RequireDID(exchange) ==
    IF ~DIDFromContext(exchange).ok
    THEN [exchange EXCEPT !.pc = "done", !.status = StatusUnauthorized,
                          !.body = "authentication required"]
    ELSE [exchange EXCEPT !.pc = "done", !.status = 200, !.handler = TRUE]

(***************************************************************************)
(* The Authorization header as text: what AuthHeader.String writes and     *)
(* what the regexp of parseAuthHeader finds in it.  A text is a sequence   *)
(* of pieces; the pieces of a value are any but the double quote.          *)
(***************************************************************************)
HeaderKeys == {"did", "nonce", "timestamp", "verification_method", "signature"}
Quote == "\""

\* One key="value" pair.
KeyValue(key, value) == <<key, "=", Quote>> \o value \o <<Quote>>

\* The pairs of an AuthHeader in the order String writes them.
Pairs(h) ==
    << <<"did", h.DID>>, <<"nonce", h.Nonce>>, <<"timestamp", h.Timestamp>>,
       <<"verification_method", h.VerificationMethod>>, <<"signature", h.Signature>> >>

\* `DIDWba k="v", k="v", ...` for a sequence of pairs.
RECURSIVE JoinPairs(_)
JoinPairs(pairs) ==
    IF Len(pairs) = 0 THEN <<>>
    ELSE IF Len(pairs) = 1 THEN KeyValue(pairs[1][1], pairs[1][2])
    ELSE KeyValue(pairs[1][1], pairs[1][2]) \o <<",", " ">> \o JoinPairs(Tail(pairs))

\* The text fmt.Sprintf produces in AuthHeader.String.
Sprintf(h) == <<"DIDWba", " ">> \o JoinPairs(Pairs(h))

\* Mutant: the value runs to the last double quote of the text.
MatchEndGreedy(text, i) ==
    IF i + 2 > Len(text) \/ text[i] \notin HeaderKeys
       \/ text[i + 1] # "=" \/ text[i + 2] # Quote
    THEN 0
    ELSE LET closing == {j \in (i + 3)..Len(text) : text[j] = Quote}
         IN IF closing = {} THEN 0
            ELSE CHOOSE j \in closing : \A k \in closing : k <= j

\* Where the match of (key)="([^"]*)" that starts at i ends; 0 when none does.
MatchEnd(text, i) ==
    IF i + 2 > Len(text) \/ text[i] \notin HeaderKeys
       \/ text[i + 1] # "=" \/ text[i + 2] # Quote
    THEN 0
    ELSE LET closing == {j \in (i + 3)..Len(text) : text[j] = Quote}
         IN IF closing = {} THEN 0
            ELSE CHOOSE j \in closing : \A k \in closing : j <= k

\* re.FindAllStringSubmatch(header, -1): leftmost matches, not overlapping.
RECURSIVE FindAllStringSubmatch(_, _)
FindAllStringSubmatch(text, i) ==
    IF i > Len(text) THEN <<>>
    ELSE LET j == MatchEnd(text, i)
         IN IF j = 0 THEN FindAllStringSubmatch(text, i + 1)
            ELSE << <<text[i], SubSeq(text, i + 3, j - 1)>> >>
                 \o FindAllStringSubmatch(text, j + 1)

\* parseAuthHeader on the text of a header.
parseAuthHeaderText(text) ==
    LET header == TrimSpaceText(text)
    IN IF header = EmptyText \/ header[1] # "DIDWba"
       THEN [err |-> TRUE, parts |-> NoParts]
       ELSE parseAuthHeader([scheme |-> "DIDWba",
                             matches |-> FindAllStringSubmatch(TrimSpaceText(Tail(header)), 1),
                             token |-> NoToken])

\* Values without a double quote, some of which read like a pair's beginning.
HeaderValues == {<<"a">>, <<"can", "did", "=">>, <<" ", "nonce", "=", "b", ",", " ">>}
WellFormedParts ==
    [DID : HeaderValues, Nonce : HeaderValues, Timestamp : HeaderValues,
     VerificationMethod : HeaderValues, Signature : HeaderValues]

\* The orders five pairs can be written in.
Orders == {order \in [1..Len(Pairs(NoParts)) -> 1..Len(Pairs(NoParts))] :
              \A i, j \in DOMAIN order : order[i] = order[j] => i = j}
Reordered(pairs, order) == [i \in DOMAIN order |-> pairs[order[i]]]
Without(pairs, key) == SelectSeq(pairs, LAMBDA pair : pair[1] # key)

(***************************************************************************)
(* did:wba identifiers as text: buildDID and didToURL.  A text is a        *)
(* sequence of pieces: a word, one reserved character, or one %XX escape.  *)
(***************************************************************************)
\* net/url escapes, by piece: url.PathEscape (segment mode) escapes "/",
\* ";", ",", "?", the blank and "%"; it leaves ":", "@", "&", "=", "+" and
\* "$" as they are.
PathEscapePiece(piece) ==
    CASE piece = "/" -> "%2F"
      [] piece = ";" -> "%3B"
      [] piece = "," -> "%2C"
      [] piece = "?" -> "%3F"
      [] piece = " " -> "%20"
      [] piece = "%" -> "%25"
      [] OTHER -> piece

\* url.PathEscape
PathEscape(text) == [i \in DOMAIN text |-> PathEscapePiece(text[i])]

\* url.PathUnescape: every %XX piece becomes its character; a bare "%" is an error.
PathUnescapePiece(piece) ==
    CASE piece = "%2F" -> "/"
      [] piece = "%3B" -> ";"
      [] piece = "%2C" -> ","
      [] piece = "%3F" -> "?"
      [] piece = "%20" -> " "
      [] piece = "%25" -> "%"
      [] piece = "%3A" -> ":"
      [] OTHER -> piece
PathUnescape(text) ==
    [err |-> \E i \in DOMAIN text : text[i] = "%",
     text |-> [i \in DOMAIN text |-> PathUnescapePiece(text[i])]]

\* strings.Join(texts, sep)
RECURSIVE Join(_, _)
Join(texts, sep) ==
    IF Len(texts) = 0 THEN <<>>
    ELSE IF Len(texts) = 1 THEN texts[1]
    ELSE texts[1] \o <<sep>> \o Join(Tail(texts), sep)

\* The path segments buildDID keeps: trimmed, not empty, escaped.
RECURSIVE cleanedSegments(_)
cleanedSegments(pathSegments) ==
    IF Len(pathSegments) = 0 THEN <<>>
    ELSE LET trimmed == TrimSpaceText(pathSegments[1])
         IN (IF trimmed = EmptyText THEN <<>> ELSE <<PathEscape(trimmed)>>)
            \o cleanedSegments(Tail(pathSegments))

\* A port that was not given.
NoPort == ""

\* buildDID(hostname, port, pathSegments); the port is its decimal text.
buildDID(hostname, port, pathSegments) ==
    IF hostname = EmptyText THEN [err |-> TRUE, did |-> EmptyText]
    ELSE LET didBase == <<"did", ":", "wba", ":">> \o hostname
                        \o (IF port # NoPort THEN PathEscape(<<":", port>>) ELSE <<>>)
             cleaned == cleanedSegments(pathSegments)
         IN [err |-> FALSE,
             did |-> IF Len(cleaned) > 0
                     THEN didBase \o <<":">> \o Join(cleaned, ":")
                     ELSE didBase]

\* strings.SplitN(text, ":", n): at most n parts, the last one unsplit.
RECURSIVE SplitN(_, _)
SplitN(text, n) ==
    LET colons == {i \in DOMAIN text : text[i] = ":"}
    IN IF n = 1 \/ colons = {} THEN <<text>>
       ELSE LET first == CHOOSE i \in colons : \A j \in colons : i <= j
            IN <<SubSeq(text, 1, first - 1)>>
               \o SplitN(SubSeq(text, first + 1, Len(text)), n - 1)

\* didToURL(did)
didToURL(did) ==
    IF Len(did) < Len(<<"did", ":", "wba", ":">>)
       \/ SubSeq(did, 1, Len(<<"did", ":", "wba", ":">>)) # <<"did", ":", "wba", ":">>
    THEN [err |-> TRUE, url |-> EmptyText]
    ELSE LET parts == SplitN(did, Len(<<"did", "wba", "domain", "path">>))
             domain == PathUnescape(parts[3])
             path == IF Len(parts) > 3
                     THEN <<"/">> \o [i \in DOMAIN parts[4] |->
                                        IF parts[4][i] = ":" THEN "/" ELSE parts[4][i]]
                          \o <<"/", "did.json">>
                     ELSE <<"/", ".well-known", "/", "did.json">>
         IN IF domain.err THEN [err |-> TRUE, url |-> EmptyText]
            ELSE [err |-> FALSE, url |-> <<"https://">> \o domain.text \o path]

\* Hostnames, ports and path segments a DID is built from.
Hostnames == {<<"example.com">>, <<"agents", ".", "example.com">>}
Ports == {NoPort, "443", "8080"}
MaxSegments == 2
SegmentLists ==
    UNION {[1..k -> {<<"user">>, <<"alice">>, <<" ", "wba", " ">>}] : k \in 0..MaxSegments}
DIDInputs == [hostname : Hostnames, port : Ports, pathSegments : SegmentLists]

\* No function has been evaluated on its own yet.
NoProbe == [fn |-> "", applied |-> FALSE, input |-> <<>>, output |-> <<>>]

\* A client request before it is made: Fetch or RoundTrip, the credential,
\* status and Authorization value of each attempt, and how the call ended.
IdleClient ==
    [pc |-> "idle", kind |-> "", target |-> EmptyText, attempts |-> <<>>, out |-> ""]

\* An HTTP exchange of the middleware before the request arrives: the
\* request, whether the verifier accepted it, the context handed on, the
\* response status, body and Authorization header, and whether the wrapped
\* handler ran.
IdleExchange ==
    [pc |-> "idle", authorization |-> EmptyAuthorization, host |-> "",
     verified |-> FALSE, hasDID |-> FALSE, did |-> EmptyText,
     hasToken |-> FALSE, access_token |-> NoToken,
     status |-> 0, body |-> "", responseAuthorization |-> EmptyAuthorization,
     middleware |-> FALSE, guard |-> [kind |-> "", allowedDIDs |-> {}],
     handler |-> FALSE]

(***************************************************************************)
(* State.                                                                  *)
(***************************************************************************)
VARIABLES
    clock,      \* the wall clock (time.Now, and the verifier's default Now)
    verifier,   \* the DidWbaVerifier NewDidWbaVerifier returned, or its error
    used,       \* MemoryNonceValidator.used: key -> insertion time
    didCache,   \* DidWbaVerifier.didCache: DID -> [doc, expiresAt]
    call,       \* the VerifyAuthHeaderContext calls, each at its position
    authenticator,  \* the Authenticator: cfg, didDocument, privateKey, loadOnce, loadErr
    tokens,     \* Authenticator.tokens: domain -> bearer token
    authHeaders,    \* Authenticator.authHeaders: domain -> DIDWba header value
    flights,    \* Authenticator.sf: domain -> the call in flight and the callers waiting on it
    signed,     \* the signature computations so far, in order
    gor,        \* the goroutines calling the Authenticator, each at its position
    client,     \* the requests the goroutines send through Fetch or RoundTrip
    served,     \* the HTTP exchanges of the server middleware, one per call
    probe       \* the last evaluation of a function on its own: input and output

verifierVars == <<verifier, used, didCache, call, served>>
authVars == <<authenticator, tokens, authHeaders, flights, signed, gor, client>>
vars == <<clock, verifier, used, didCache, call,
          authenticator, tokens, authHeaders, flights, signed, gor, client, served,
          probe>>

IdleCall ==
    [pc |-> "idle", authorization |-> EmptyAuthorization, domain |-> "",
     steps |-> {}, answer |-> "none", valDID |-> EmptyText,
     valNonce |-> EmptyText, valAt |-> 0, doc |-> NoDoc, resolved |-> 0,
     result |-> NoResult]

\* The program after start-up, before any constructor ran.
InitProgram ==
    /\ clock = 0
    /\ verifier = NoVerifier
    /\ used = <<>>
    /\ didCache = <<>>
    /\ call = [c \in Calls |-> IdleCall]
    /\ authenticator = NoAuthenticator
    /\ tokens = <<>>
    /\ authHeaders = <<>>
    /\ flights = <<>>
    /\ signed = <<>>
    /\ gor = [g \in Goroutines |-> IdleGoroutine]
    /\ client = [g \in Goroutines |-> IdleClient]
    /\ served = [c \in Calls |-> IdleExchange]

Init == InitProgram /\ probe = NoProbe

Parts(c) == parseAuthHeader(call[c].authorization).parts

\* Tokens the verifier has handed out so far.
Issued == {call[c].result.access_token : c \in {d \in Calls : call[d].result.ok
                                                 /\ call[d].result.token_type = "bearer"}}

Authorizations ==
    {String(h) : h \in WireHeaders} \cup Malformed \cup {EmptyAuthorization}
    \cup {BearerAuthorization(t) : t \in Issued \cup {ForgedToken}}

\* Requests: every Authorization value for ServiceDomain, and a header of
\* each signing discipline for the other domains.
Requests ==
    {<<a, ServiceDomain>> : a \in Authorizations}
    \cup {<<String(h), d>> : h \in {Generated(DidA, Nonce1), SingleHash(DidA, Nonce1, 0)},
                             d \in Domains}

\* Requests of concurrent clients: a well-formed header minted at second 0
\* (so a replay or a new one), by either signing discipline, one of them also
\* for a foreign domain, a token the verifier issued or a forged one, or no
\* credentials at all.
Traffic ==
    {<<String(h), ServiceDomain>> :
        h \in {Generated(DidA, Nonce1)} \cup {SingleHash(d, n, 0) : d \in DIDs, n \in Nonces}}
    \cup {<<String(SingleHash(DidA, Nonce1, 0)), "intruder.com">>}
    \cup {<<BearerAuthorization(t), d>> : t \in Issued, d \in {ServiceDomain, "intruder.com"}}
    \cup {<<BearerAuthorization(ForgedToken), ServiceDomain>>,
          <<EmptyAuthorization, ServiceDomain>>}

\* The configurations the concurrent clients are served under.
Deployments ==
    {BaseConfig,
     [BaseConfig EXCEPT !.NonceExpiration = ShortExpiration],
     [BaseConfig EXCEPT !.AllowedDomains = <<" example.com ">>]}

(***************************************************************************)
(* Actions.                                                                *)
(***************************************************************************)
Construct(config) ==
    /\ verifier.state = "none"
    /\ verifier' = NewDidWbaVerifier(config)
    /\ UNCHANGED <<clock, used, didCache, call, served, authVars, probe>>

Tick ==
    /\ clock < MaxClock
    /\ clock' = clock + 1
    /\ UNCHANGED <<verifier, used, didCache, call, served, authVars, probe>>

\* VerifyAuthHeaderContext up to and including verifyTimestamp; the Bearer
\* path whole.
Begin(c, authorization, domain) ==
    /\ verifier.state = "ready"
    /\ call[c].pc = "idle"
    /\ IF c = 1 THEN TRUE ELSE call[c - 1].pc # "idle"
    /\ LET cfg == verifier.config
           started == [call[c] EXCEPT !.authorization = authorization,
                                      !.domain = domain]
           domainErr == ensureDomainAllowed(cfg, domain)
           parsed == parseAuthHeader(authorization)
           timeErr == verifyTimestamp(cfg, parsed.parts.Timestamp, clock)
           end(steps, result) ==
               [started EXCEPT !.pc = "done", !.steps = steps, !.result = result]
       IN call' = [call EXCEPT ![c] =
            IF authorization = EmptyAuthorization
            THEN end({}, Failure(NewErrorWithStatus("missing_auth", StatusUnauthorized,
                                                    "missing authorization header")))
            ELSE IF authorization.scheme = "Bearer "
            THEN end({"bearer"}, handleBearerAuth(cfg, authorization, clock))
            ELSE IF domainErr # NoError
            THEN end({}, Failure(domainErr))
            ELSE IF parsed.err
            THEN end({"parse"}, Failure(NewErrorWithStatus("invalid_auth_header",
                                            StatusUnauthorized, "parse auth header")))
            ELSE IF timeErr # NoError
            THEN end({"parse", "timestamp"}, Failure(timeErr))
            ELSE [started EXCEPT !.pc = "nonce", !.steps = {"parse", "timestamp"}]]
    /\ UNCHANGED <<clock, verifier, used, didCache, served, authVars, probe>>

\* verifyNonce: the injected validator decides.
NonceStep(c, external) ==
    /\ call[c].pc = "nonce"
    /\ LET cfg == verifier.config
           did == Parts(c).DID
           nonce == Parts(c).Nonce
           v == Validate(used, cfg.NonceExpiration, did, nonce, clock)
           answer == IF cfg.NonceValidator = "memory"
                     THEN (IF v.ok THEN "true" ELSE "false")
                     ELSE external
           e == verifyNonce(answer)
           called == [call[c] EXCEPT !.steps = @ \cup {"validator"}, !.answer = answer,
                                     !.valDID = did, !.valNonce = nonce,
                                     !.valAt = IF answer = "true" THEN clock ELSE 0]
       IN /\ cfg.NonceValidator = "memory" => external = "true"
          /\ used' = IF cfg.NonceValidator = "memory" THEN v.used ELSE used
          /\ call' = [call EXCEPT ![c] =
                IF e # NoError
                THEN [called EXCEPT !.pc = "done", !.result = Failure(e)]
                ELSE [called EXCEPT !.pc = "lookup"]]
    /\ UNCHANGED <<clock, verifier, didCache, served, authVars, probe>>

\* Mutant: an entry still counts as fresh at the instant of its expiry.
CacheHitInclusive(did) == did \in DOMAIN didCache /\ clock <= didCache[did].expiresAt

CacheHit(did) == did \in DOMAIN didCache /\ clock < didCache[did].expiresAt

\* resolveAndCacheDID, first critical section.  The steps record what the
\* section found: a fresh entry ("hit"), or an entry past its expiry
\* ("expired").
Lookup(c) ==
    /\ call[c].pc = "lookup"
    /\ call' = [call EXCEPT ![c] =
          IF CacheHit(Parts(c).DID)
          THEN [@ EXCEPT !.pc = "verify", !.steps = @ \cup {"hit"},
                         !.doc = didCache[Parts(c).DID].doc]
          ELSE [@ EXCEPT !.pc = "resolve",
                         !.steps = @ \cup (IF Parts(c).DID \in DOMAIN didCache
                                           THEN {"expired"} ELSE {})]]
    /\ UNCHANGED <<clock, verifier, used, didCache, served, authVars, probe>>

\* What the resolver may return for a DID: the default resolver fails or
\* returns the hosted document whose id is the DID; a custom one may return
\* any document.
ResolverOutcomes(config, did) ==
    {NoDoc} \cup {DocOf(d) : d \in {x \in DIDs : config.ResolveDIDDocument = "custom" \/ x = did}}

\* Mutant: a failed resolution is remembered in the cache.
ResolveCachingFailure(c, outcome) ==
    /\ call[c].pc = "resolve"
    /\ outcome \in ResolverOutcomes(verifier.config, Parts(c).DID)
    /\ call' = [call EXCEPT ![c] =
          IF outcome = NoDoc
          THEN [@ EXCEPT !.pc = "done", !.steps = @ \cup {"resolver"},
                         !.resolved = @ + 1,
                         !.result = Failure(NewErrorWithStatus("did_resolution",
                                        StatusUnauthorized, "resolve DID document"))]
          ELSE [@ EXCEPT !.pc = "store", !.steps = @ \cup {"resolver"},
                         !.resolved = @ + 1, !.doc = outcome]]
    /\ didCache' = IF outcome = NoDoc
                   THEN [d \in DOMAIN didCache \cup {Parts(c).DID} |->
                            IF d = Parts(c).DID
                            THEN [doc |-> NoDoc,
                                  expiresAt |-> clock + verifier.config.DIDCacheExpiration]
                            ELSE didCache[d]]
                   ELSE didCache
    /\ UNCHANGED <<clock, verifier, used, served, authVars, probe>>

\* resolveAndCacheDID, the resolver call (no lock held).
Resolve(c, outcome) ==
    /\ call[c].pc = "resolve"
    /\ outcome \in ResolverOutcomes(verifier.config, Parts(c).DID)
    /\ call' = [call EXCEPT ![c] =
          IF outcome = NoDoc
          THEN [@ EXCEPT !.pc = "done", !.steps = @ \cup {"resolver"},
                         !.resolved = @ + 1,
                         !.result = Failure(NewErrorWithStatus("did_resolution",
                                        StatusUnauthorized, "resolve DID document"))]
          ELSE [@ EXCEPT !.pc = "store", !.steps = @ \cup {"resolver"},
                         !.resolved = @ + 1, !.doc = outcome]]
    /\ UNCHANGED <<clock, verifier, used, didCache, served, authVars, probe>>

\* Mutant: the second critical section writes without looking again.
StoreOverwriting(c) ==
    /\ call[c].pc = "store"
    /\ LET did == Parts(c).DID
       IN /\ didCache' = [d \in DOMAIN didCache \cup {did} |->
                             IF d = did
                             THEN [doc |-> call[c].doc,
                                   expiresAt |-> clock + verifier.config.DIDCacheExpiration]
                             ELSE didCache[d]]
          /\ call' = [call EXCEPT ![c] = [@ EXCEPT !.pc = "verify",
                                                   !.steps = @ \cup {"stored"}]]
    /\ UNCHANGED <<clock, verifier, used, served, authVars, probe>>

\* resolveAndCacheDID, second critical section: a fresh entry another call
\* wrote in the meantime is returned and kept ("recheck"), otherwise the
\* resolved document is written ("stored").
Store(c) ==
    /\ call[c].pc = "store"
    /\ LET did == Parts(c).DID
       IN IF CacheHit(did)
          THEN /\ call' = [call EXCEPT ![c] = [@ EXCEPT !.pc = "verify",
                                                        !.steps = @ \cup {"recheck"},
                                                        !.doc = didCache[did].doc]]
               /\ UNCHANGED didCache
          ELSE /\ didCache' = [d \in DOMAIN didCache \cup {did} |->
                                  IF d = did
                                  THEN [doc |-> call[c].doc,
                                        expiresAt |-> clock + verifier.config.DIDCacheExpiration]
                                  ELSE didCache[d]]
               /\ call' = [call EXCEPT ![c] = [@ EXCEPT !.pc = "verify",
                                                        !.steps = @ \cup {"stored"}]]
    /\ UNCHANGED <<clock, verifier, used, served, authVars, probe>>

\* Mutant: a call that fails after the nonce step gives its nonce back.
FinishReleasing(c) ==
    /\ call[c].pc = "verify"
    /\ LET result == issueToken(verifier.config, call[c].authorization,
                                call[c].doc, call[c].domain, clock)
           key == NonceKey(call[c].valDID, call[c].valNonce)
       IN /\ call' = [call EXCEPT ![c] =
                [@ EXCEPT !.pc = "done", !.steps = @ \cup {"signature"}, !.result = result]]
          /\ used' = IF result.ok THEN used
                     ELSE [k \in DOMAIN used \ {key} |-> used[k]]
    /\ UNCHANGED <<clock, verifier, didCache, served, authVars, probe>>

\* handleDidAuth from verifySignature to the result.
Finish(c) ==
    /\ call[c].pc = "verify"
    /\ call' = [call EXCEPT ![c] =
          [@ EXCEPT !.pc = "done", !.steps = @ \cup {"signature"},
                    !.result = issueToken(verifier.config, call[c].authorization,
                                          call[c].doc, call[c].domain, clock)]]
    /\ UNCHANGED <<clock, verifier, used, didCache, served, authVars, probe>>

\* Concurrent calls on one verifier, their steps interleaved in any order.
Next ==
    \/ \E config \in Deployments : Construct(config)
    \/ Tick
    \/ \E c \in Calls : \E r \in Traffic : Begin(c, r[1], r[2])
    \/ \E c \in Calls, external \in {"true", "false", "error"} : NonceStep(c, external)
    \/ \E c \in Calls : Lookup(c)
    \/ \E c \in Calls, outcome \in {NoDoc} \cup {DocOf(d) : d \in DIDs} : Resolve(c, outcome)
    \/ \E c \in Calls : Store(c)
    \/ \E c \in Calls : Finish(c)

Spec == Init /\ [][Next]_vars

\* One call on a fresh verifier, under any configuration and with any request.
NextSingle ==
    \/ \E config \in Configs : Construct(config)
    \/ Tick
    \/ \E r \in Requests : Begin(1, r[1], r[2])
    \/ \E external \in {"true", "false", "error"} : NonceStep(1, external)
    \/ Lookup(1)
    \/ \E outcome \in {NoDoc} \cup {DocOf(d) : d \in DIDs} : Resolve(1, outcome)
    \/ Store(1)
    \/ Finish(1)

SpecSingle == Init /\ [][NextSingle]_vars

\* Verifiers whose resolver may return any document, one of them with a DID
\* cache whose entries last one tick.
CacheDeployments ==
    {[BaseConfig EXCEPT !.ResolveDIDDocument = "custom"],
     [BaseConfig EXCEPT !.ResolveDIDDocument = "custom",
                        !.DIDCacheExpiration = ShortExpiration]}

\* Well-signed requests of DidA (and one of DidB), each with its own nonce.
CacheTraffic ==
    {<<String(SingleHash(DidA, n, 0)), ServiceDomain>> : n \in Nonces}
    \cup {<<String(SingleHash(DidB, Nonce2, 0)), ServiceDomain>>}

\* Concurrent calls that all get as far as resolveAndCacheDID.
NextCache ==
    \/ \E config \in CacheDeployments : Construct(config)
    \/ Tick
    \/ \E c \in Calls : \E r \in CacheTraffic : Begin(c, r[1], r[2])
    \/ \E c \in Calls : NonceStep(c, "true")
    \/ \E c \in Calls : Lookup(c)
    \/ \E c \in Calls, outcome \in {NoDoc} \cup {DocOf(d) : d \in DIDs} : Resolve(c, outcome)
    \/ \E c \in Calls : Store(c)
    \/ \E c \in Calls : Finish(c)

SpecCache == Init /\ [][NextCache]_vars

\* Verifiers under which a request can fail at every step of handleDidAuth.
ReplayDeployments ==
    {BaseConfig,
     [BaseConfig EXCEPT !.NonceExpiration = ShortExpiration],
     [BaseConfig EXCEPT !.TimestampExpiration = ShortExpiration],
     [BaseConfig EXCEPT !.JWTPrivateKey = "nil", !.JWTPublicKey = "nil"],
     [BaseConfig EXCEPT !.AllowedDomains = <<" example.com ">>]}

\* One header of each signing discipline, the same header for a foreign
\* domain, and a header without its signature.
ReplayTraffic ==
    {<<String(h), ServiceDomain>> : h \in {Generated(DidA, Nonce1), SingleHash(DidA, Nonce1, 0)}}
    \cup {<<String(SingleHash(DidA, Nonce1, 0)), "intruder.com">>}
    \cup {<<[String(SingleHash(DidA, Nonce1, 0)) EXCEPT !.matches = SubSeq(@, 1, 4)],
            ServiceDomain>>}

\* A request and its re-submission.
NextReplay ==
    \/ \E config \in ReplayDeployments : Construct(config)
    \/ Tick
    \/ \E c \in Calls : \E r \in ReplayTraffic : Begin(c, r[1], r[2])
    \/ \E c \in Calls : NonceStep(c, "true")
    \/ \E c \in Calls : Lookup(c)
    \/ \E c \in Calls, outcome \in {NoDoc} \cup {DocOf(d) : d \in DIDs} : Resolve(c, outcome)
    \/ \E c \in Calls : Store(c)
    \/ \E c \in Calls : Finish(c)

SpecReplay == Init /\ [][NextReplay]_vars

\* The clock of a long-lived verifier: it advances by a second or by a
\* minute, between any two steps.
Elapse(d) ==
    /\ clock + d <= MaxMinutes * Minute
    /\ (clock + d) % Minute <= MaxClock
    /\ clock' = clock + d
    /\ UNCHANGED <<verifier, used, didCache, call, served, authVars, probe>>

\* One header stamped at second 0 and one stamped a minute ahead, as far in
\* the future as the tolerance allows.
LifetimeTraffic ==
    {<<String(SingleHash(DidA, Nonce1, t)), ServiceDomain>> : t \in {0, DefaultTimestampTolerance}}

\* A verifier with the default windows, followed over minutes.
NextLifetime ==
    \/ Construct(BaseConfig)
    \/ \E d \in {1, Minute} : Elapse(d)
    \/ \E c \in Calls : \E r \in LifetimeTraffic : Begin(c, r[1], r[2])
    \/ \E c \in Calls : NonceStep(c, "true")
    \/ \E c \in Calls : Lookup(c)
    \/ \E c \in Calls : Resolve(c, DocOf(DidA))
    \/ \E c \in Calls : Store(c)
    \/ \E c \in Calls : Finish(c)

SpecLifetime == Init /\ [][NextLifetime]_vars

(***************************************************************************)
(* The Authenticator's operations.  Goroutines call one Authenticator      *)
(* concurrently; every step below is one critical section of cacheMutex,   *)
(* of loadOnce or of the singleflight group's mutex.                       *)
(***************************************************************************)
\* Mutant: the cached DIDWba header is preferred to the bearer token.
cachedCredentialHeaderFirst(tokenMap, headerMap, domain) ==
    IF domain \in DOMAIN headerMap THEN [ok |-> TRUE, value |-> headerMap[domain]]
    ELSE IF domain \in DOMAIN tokenMap
    THEN [ok |-> TRUE, value |-> BearerAuthorization(tokenMap[domain])]
    ELSE [ok |-> FALSE, value |-> EmptyAuthorization]

\* The cache check of header, under cacheMutex: the bearer token first, then
\* the DIDWba header.
cachedCredential(tokenMap, headerMap, domain) ==
    IF domain \in DOMAIN tokenMap
    THEN [ok |-> TRUE, value |-> BearerAuthorization(tokenMap[domain])]
    ELSE IF domain \in DOMAIN headerMap THEN [ok |-> TRUE, value |-> headerMap[domain]]
    ELSE [ok |-> FALSE, value |-> EmptyAuthorization]

MayStart(g) ==
    /\ authenticator.state = "ready"
    /\ gor[g].pc = "idle"
    /\ IF g = 1 THEN TRUE ELSE gor[g - 1].pc # "idle"

\* What the caches, the signature count and loadOnce are when a call starts,
\* and which calls are in progress.
Snapshot ==
    [tokens |-> tokens, authHeaders |-> authHeaders, signed |-> Len(signed),
     loadOnce |-> authenticator.loadOnce,
     pending |-> {k \in Goroutines : \/ gor[k].pc \notin {"idle", "done"}
                                     \/ client[k].pc \notin {"idle", "returned"}}]

Started(op, target, force, arg) ==
    [IdleGoroutine EXCEPT !.op = op, !.target = target,
                          !.domain = getDomain(target).domain, !.force = force,
                          !.arg = arg, !.began = Snapshot]

Create(opt) ==
    /\ authenticator.state = "none"
    /\ authenticator' = NewAuthenticator(opt)
    /\ UNCHANGED <<clock, verifierVars, tokens, authHeaders, flights, signed, gor, client, probe>>

\* Where a goroutine stands after header's getDomain and first cache check.
enterHeader(target, force) ==
    LET d == getDomain(target)
        started == Started(IF force THEN "GenerateHeaderForce" ELSE "GenerateHeader",
                           target, force, EmptyAuthorization)
        hit == cachedCredential(tokens, authHeaders, d.domain)
    IN IF d.err
       THEN [started EXCEPT !.pc = "done", !.result = Failed("parse url")]
       ELSE IF ~force /\ hit.ok
       THEN [started EXCEPT !.pc = "done", !.result = Returned(hit.value)]
       ELSE [started EXCEPT !.pc = "flight"]

\* header(target, force) up to sf.Do: getDomain and the first cache check.
header(g, target, force) ==
    /\ MayStart(g)
    /\ gor' = [gor EXCEPT ![g] = enterHeader(target, force)]
    /\ UNCHANGED <<clock, verifierVars, authenticator, tokens, authHeaders, flights, signed, client, probe>>

\* Mutant: every caller runs fn itself, whether or not the key is in flight.
DoAlone(g) ==
    /\ gor[g].pc = "flight"
    /\ flights' = (gor[g].domain :> [leader |-> g, dups |-> {}]) @@ flights
    /\ gor' = [gor EXCEPT ![g].pc = "check"]
    /\ UNCHANGED <<clock, verifierVars, authenticator, tokens, authHeaders, signed, client, probe>>

\* sf.Do(domain, fn): the first caller for a key runs fn, a caller that finds
\* the key in flight waits for that call's result.
Do(g) ==
    /\ gor[g].pc = "flight"
    /\ LET d == gor[g].domain
       IN IF d \in DOMAIN flights
          THEN /\ flights' = [flights EXCEPT ![d].dups = @ \cup {g}]
               /\ gor' = [gor EXCEPT ![g].pc = "wait"]
          ELSE /\ flights' = (d :> [leader |-> g, dups |-> {}]) @@ flights
               /\ gor' = [gor EXCEPT ![g].pc = "check"]
    /\ UNCHANGED <<clock, verifierVars, authenticator, tokens, authHeaders, signed, client, probe>>

\* Mutant: fn without its second cache check.
DoubleCheckSkipped(g) ==
    /\ gor[g].pc = "check"
    /\ gor' = [gor EXCEPT ![g].pc = "material"]
    /\ UNCHANGED <<clock, verifierVars, authenticator, tokens, authHeaders, flights, signed, client, probe>>

\* fn: the second cache check, skipped when the caller that runs fn forces.
DoubleCheck(g) ==
    /\ gor[g].pc = "check"
    /\ LET hit == cachedCredential(tokens, authHeaders, gor[g].domain)
       IN gor' = [gor EXCEPT ![g] =
              IF ~gor[g].force /\ hit.ok
              THEN [@ EXCEPT !.pc = "leave", !.val = Returned(hit.value)]
              ELSE [@ EXCEPT !.pc = "material"]]
    /\ UNCHANGED <<clock, verifierVars, authenticator, tokens, authHeaders, flights, signed, client, probe>>

\* a.ensureMaterial(), in fn and in GenerateJSON.
EnsureMaterial(g) ==
    /\ gor[g].pc = "material"
    /\ authenticator' = ensureMaterial(authenticator)
    /\ gor' = [gor EXCEPT ![g] =
           IF ~authenticator'.loadErr THEN [@ EXCEPT !.pc = "sign"]
           ELSE IF gor[g].op = "GenerateJSON"
           THEN [@ EXCEPT !.pc = "done", !.result = Failed("load authentication material")]
           ELSE [@ EXCEPT !.pc = "leave", !.val = Failed("load authentication material")]]
    /\ UNCHANGED <<clock, verifierVars, tokens, authHeaders, flights, signed, client, probe>>

\* GenerateAuthHeader / GenerateAuthJSON: a new nonce, the current time, a signature.
Sign(g) ==
    /\ gor[g].pc = "sign"
    /\ LET made == GenerateAuthHeader(authenticator.privateKey, authenticator.didDocument,
                                      gor[g].domain, newNonce(Len(signed) + 1), clock)
       IN /\ signed' = IF made.err THEN signed
                       ELSE Append(signed, [by |-> g, op |-> gor[g].op, at |-> clock,
                                            header |-> made.header])
          /\ gor' = [gor EXCEPT ![g] =
                 IF gor[g].op = "GenerateJSON"
                 THEN IF made.err
                      THEN [@ EXCEPT !.pc = "done", !.result = Failed("generate json")]
                      ELSE [@ EXCEPT !.pc = "done", !.result.json = made.header]
                 ELSE IF made.err
                      THEN [@ EXCEPT !.pc = "leave", !.val = Failed("generate header")]
                      ELSE [@ EXCEPT !.pc = "store", !.val = Returned(String(made.header))]]
    /\ UNCHANGED <<clock, verifierVars, authenticator, tokens, authHeaders, flights, client, probe>>

\* fn: a.authHeaders[domain] = headerString
StoreHeader(g) ==
    /\ gor[g].pc = "store"
    /\ authHeaders' = (gor[g].domain :> gor[g].val.value) @@ authHeaders
    /\ gor' = [gor EXCEPT ![g].pc = "leave"]
    /\ UNCHANGED <<clock, verifierVars, authenticator, tokens, flights, signed, client, probe>>

\* Mutant: only the caller that ran fn gets its result; the waiters call
\* sf.Do again.
LeaveLeaderOnly(g) ==
    /\ gor[g].pc = "leave"
    /\ LET d == gor[g].domain
       IN /\ gor' = [h \in Goroutines |->
                        IF h = g THEN [gor[h] EXCEPT !.pc = "done", !.result = gor[g].val]
                        ELSE IF h \in flights[d].dups THEN [gor[h] EXCEPT !.pc = "flight"]
                        ELSE gor[h]]
          /\ flights' = [k \in DOMAIN flights \ {d} |-> flights[k]]
    /\ UNCHANGED <<clock, verifierVars, authenticator, tokens, authHeaders, signed, client, probe>>

\* fn returned: the key leaves the group, the caller and every waiter get fn's result.
Leave(g) ==
    /\ gor[g].pc = "leave"
    /\ LET d == gor[g].domain
           sharing == {g} \cup flights[d].dups
       IN /\ gor' = [h \in Goroutines |->
                        IF h \in sharing
                        THEN [gor[h] EXCEPT !.pc = "done", !.result = gor[g].val]
                        ELSE gor[h]]
          /\ flights' = [k \in DOMAIN flights \ {d} |-> flights[k]]
    /\ UNCHANGED <<clock, verifierVars, authenticator, tokens, authHeaders, signed, client, probe>>

\* GenerateJSON(target) up to ensureMaterial.
GenerateJSON(g, target) ==
    /\ MayStart(g)
    /\ LET started == Started("GenerateJSON", target, FALSE, EmptyAuthorization)
       IN gor' = [gor EXCEPT ![g] =
              IF getDomain(target).err
              THEN [started EXCEPT !.pc = "done", !.result = Failed("parse url")]
              ELSE [started EXCEPT !.pc = "material"]]
    /\ UNCHANGED <<clock, verifierVars, authenticator, tokens, authHeaders, flights, signed, client, probe>>

\* Mutant: the value is stored whatever its scheme.
UpdateFromResponseAnyScheme(g, target, token) ==
    /\ MayStart(g)
    /\ gor' = [gor EXCEPT ![g] =
           [Started("UpdateFromResponse", target, FALSE, token) EXCEPT !.pc = "done"]]
    /\ tokens' = IF getDomain(target).err THEN tokens
                 ELSE (getDomain(target).domain :> token.token) @@ tokens
    /\ UNCHANGED <<clock, verifierVars, authenticator, authHeaders, flights, signed, client, probe>>

\* UpdateFromResponse(target, header), with header's Authorization value.
UpdateFromResponse(g, target, token) ==
    /\ MayStart(g)
    /\ gor' = [gor EXCEPT ![g] =
           [Started("UpdateFromResponse", target, FALSE, token) EXCEPT !.pc = "done"]]
    /\ tokens' = IF token.scheme # "Bearer " \/ getDomain(target).err THEN tokens
                 ELSE (getDomain(target).domain :> token.token) @@ tokens
    /\ UNCHANGED <<clock, verifierVars, authenticator, authHeaders, flights, signed, client, probe>>

\* Mutant: only the bearer token is removed.
ClearTokenKeepsHeader(g, target) ==
    /\ MayStart(g)
    /\ gor' = [gor EXCEPT ![g] =
           [Started("ClearToken", target, FALSE, EmptyAuthorization) EXCEPT !.pc = "done"]]
    /\ tokens' = IF getDomain(target).err THEN tokens
                 ELSE [k \in DOMAIN tokens \ {getDomain(target).domain} |-> tokens[k]]
    /\ UNCHANGED <<clock, verifierVars, authenticator, authHeaders, flights, signed, client, probe>>

\* ClearToken(target)
ClearToken(g, target) ==
    /\ MayStart(g)
    /\ gor' = [gor EXCEPT ![g] =
           [Started("ClearToken", target, FALSE, EmptyAuthorization) EXCEPT !.pc = "done"]]
    /\ LET d == getDomain(target)
       IN /\ tokens' = IF d.err THEN tokens
                       ELSE [k \in DOMAIN tokens \ {d.domain} |-> tokens[k]]
          /\ authHeaders' = IF d.err THEN authHeaders
                            ELSE [k \in DOMAIN authHeaders \ {d.domain} |-> authHeaders[k]]
    /\ UNCHANGED <<clock, verifierVars, authenticator, flights, signed, client, probe>>

\* Goroutines calling one Authenticator, their steps interleaved in any order:
\* header requests for two domains, forced refreshes, a server's token and a
\* ClearToken for the first domain.
NextAuth ==
    \/ \E opt \in AuthenticatorOptions : Create(opt)
    \/ Tick
    \/ \E g \in Goroutines, target \in {TargetA, TargetB} : header(g, target, FALSE)
    \/ \E g \in Goroutines : header(g, TargetA, TRUE)
    \/ \E g \in Goroutines : Do(g)
    \/ \E g \in Goroutines : DoubleCheck(g)
    \/ \E g \in Goroutines : EnsureMaterial(g)
    \/ \E g \in Goroutines : Sign(g)
    \/ \E g \in Goroutines : StoreHeader(g)
    \/ \E g \in Goroutines : Leave(g)
    \/ \E g \in Goroutines : UpdateFromResponse(g, TargetA, BearerAuthorization(TokenX))
    \/ \E g \in Goroutines : ClearToken(g, TargetA)

SpecAuth == Init /\ [][NextAuth]_vars

\* Two goroutines, with every operation, target and response value.
Pair == {1, 2}

NextPair ==
    \/ \E opt \in AuthenticatorOptions : Create(opt)
    \/ Tick
    \/ \E g \in Pair, target \in Targets, force \in BOOLEAN : header(g, target, force)
    \/ \E g \in Pair : Do(g)
    \/ \E g \in Pair : DoubleCheck(g)
    \/ \E g \in Pair : EnsureMaterial(g)
    \/ \E g \in Pair : Sign(g)
    \/ \E g \in Pair : StoreHeader(g)
    \/ \E g \in Pair : Leave(g)
    \/ \E g \in Pair, target \in Targets : GenerateJSON(g, target)
    \/ \E g \in Pair, target \in Targets, token \in ResponseAuthorizations :
           UpdateFromResponse(g, target, token)
    \/ \E g \in Pair, target \in Targets : ClearToken(g, target)

SpecPair == Init /\ [][NextPair]_vars

\* Authenticators configured with file paths, loaded lazily or eagerly.
LoadingOptions ==
    {WithDIDCfgPaths("did.json", "key.pem"),
     WithDIDCfgPaths("missing.json", "key.pem"),
     WithDIDCfgPaths("did.json", "missing.pem"),
     WithEagerLoading(WithDIDCfgPaths("did.json", "key.pem")),
     WithEagerLoading(WithDIDCfgPaths("did.json", "missing.pem")),
     WithEagerLoading(WithDIDMaterial(DocOf(DidA), KeyOf(DidA)))}

\* GenerateHeader, GenerateHeaderForce and GenerateJSON calls of three
\* goroutines on an Authenticator configured with file paths.
NextLoad ==
    \/ \E opt \in LoadingOptions : Create(opt)
    \/ \E g \in Goroutines, target \in {TargetA, TargetB}, force \in BOOLEAN :
           header(g, target, force)
    \/ \E g \in Goroutines : Do(g)
    \/ \E g \in Goroutines : DoubleCheck(g)
    \/ \E g \in Goroutines : EnsureMaterial(g)
    \/ \E g \in Goroutines : Sign(g)
    \/ \E g \in Goroutines : StoreHeader(g)
    \/ \E g \in Goroutines : Leave(g)
    \/ \E g \in Goroutines, target \in {TargetA, TargetB} : GenerateJSON(g, target)

SpecLoad == Init /\ [][NextLoad]_vars

\* Authenticators whose files cannot be read, whose document names no
\* authentication method, and one that works.
FailingOptions ==
    {WithDIDCfgPaths("missing.json", "key.pem"),
     WithDIDMaterial([DocOf(DidA) EXCEPT !.Authentication = <<>>], KeyOf(DidA)),
     WithDIDCfgPaths("did.json", "key.pem")}

\* GenerateHeader and GenerateHeaderForce calls of three goroutines, and a
\* server's token for the first domain.
NextFail ==
    \/ \E opt \in FailingOptions : Create(opt)
    \/ \E g \in Goroutines, target \in {TargetA, TargetB}, force \in BOOLEAN :
           header(g, target, force)
    \/ \E g \in Goroutines : Do(g)
    \/ \E g \in Goroutines : DoubleCheck(g)
    \/ \E g \in Goroutines : EnsureMaterial(g)
    \/ \E g \in Goroutines : Sign(g)
    \/ \E g \in Goroutines : StoreHeader(g)
    \/ \E g \in Goroutines : Leave(g)
    \/ \E g \in Goroutines : UpdateFromResponse(g, TargetA, BearerAuthorization(TokenX))

SpecFail == Init /\ [][NextFail]_vars

(***************************************************************************)
(* The clients: httpClient.Fetch and Transport.RoundTrip on one            *)
(* Authenticator.  The server is any answer: a transport error, or a       *)
(* status with an Authorization value.                                     *)
(***************************************************************************)
Answer(status, authorization) == [err |-> FALSE, status |-> status, authorization |-> authorization]
TransportError == [err |-> TRUE, status |-> 0, authorization |-> EmptyAuthorization]

Answers ==
    {Answer(200, BearerAuthorization(TokenX)), Answer(200, EmptyAuthorization),
     Answer(StatusUnauthorized, BearerAuthorization(TokenX)),
     Answer(StatusInternalServerError, BearerAuthorization(TokenX)),
     TransportError}

\* resp.StatusCode >= 200 && resp.StatusCode < 300
IsSuccess(status) == status >= 200 /\ status < 300

\* One attempt: the credential sent and the server's answer.
Attempt(credential, answer) ==
    [credential |-> credential, status |-> answer.status,
     authorization |-> answer.authorization]

LastAttempt(g) == client[g].attempts[Len(client[g].attempts)]

\* Mutant: a response's token is never stored.
tokensAfterUpdateNever(target, token) == tokens

\* What UpdateFromResponse and ClearToken do to the caches.
tokensAfterUpdate(target, token) ==
    IF token.scheme # "Bearer " \/ getDomain(target).err THEN tokens
    ELSE (getDomain(target).domain :> token.token) @@ tokens

withoutDomain(map, target) ==
    IF getDomain(target).err THEN map
    ELSE [k \in DOMAIN map \ {getDomain(target).domain} |-> map[k]]

\* Fetch up to c.authenticator.GenerateHeader(target).
Fetch(g, target) ==
    /\ client[g].pc = "idle"
    /\ MayStart(g)
    /\ gor' = [gor EXCEPT ![g] = enterHeader(target, FALSE)]
    /\ client' = [client EXCEPT ![g] =
           [IdleClient EXCEPT !.pc = "header", !.kind = "Fetch", !.target = target]]
    /\ UNCHANGED <<clock, verifierVars, authenticator, tokens, authHeaders, flights, signed, probe>>

\* Fetch: GenerateHeader returned; performRequest and the server's answer.
FetchSend(g, answer) ==
    /\ client[g].kind = "Fetch" /\ client[g].pc = "header" /\ gor[g].pc = "done"
    /\ client' = [client EXCEPT ![g] =
           IF gor[g].result.err # ""
           THEN [@ EXCEPT !.pc = "returned", !.out = "failed to get auth header"]
           ELSE IF answer.err
           THEN [@ EXCEPT !.pc = "returned", !.out = "send request",
                          !.attempts = Append(@, Attempt(gor[g].result.value, answer))]
           ELSE [@ EXCEPT !.pc = IF answer.status = StatusUnauthorized
                                 THEN "clear" ELSE "promote",
                          !.attempts = Append(@, Attempt(gor[g].result.value, answer))]]
    /\ UNCHANGED <<clock, verifierVars, authenticator, tokens, authHeaders, flights, signed, gor, probe>>

\* Fetch on 401: c.authenticator.ClearToken(target)
FetchClearToken(g) ==
    /\ client[g].kind = "Fetch" /\ client[g].pc = "clear"
    /\ tokens' = withoutDomain(tokens, client[g].target)
    /\ authHeaders' = withoutDomain(authHeaders, client[g].target)
    /\ gor' = [gor EXCEPT ![g] =
           [Started("ClearToken", client[g].target, FALSE, EmptyAuthorization)
               EXCEPT !.pc = "done"]]
    /\ client' = [client EXCEPT ![g].pc = "force"]
    /\ UNCHANGED <<clock, verifierVars, authenticator, flights, signed, probe>>

\* Fetch on 401: c.authenticator.GenerateHeaderForce(target)
FetchForce(g) ==
    /\ client[g].kind = "Fetch" /\ client[g].pc = "force"
    /\ gor' = [gor EXCEPT ![g] = enterHeader(client[g].target, TRUE)]
    /\ client' = [client EXCEPT ![g].pc = "refreshed"]
    /\ UNCHANGED <<clock, verifierVars, authenticator, tokens, authHeaders, flights, signed, probe>>

\* Fetch on 401: GenerateHeaderForce returned; the retry and the server's answer.
FetchRetry(g, answer) ==
    /\ client[g].kind = "Fetch" /\ client[g].pc = "refreshed" /\ gor[g].pc = "done"
    /\ client' = [client EXCEPT ![g] =
           IF gor[g].result.err # ""
           THEN [@ EXCEPT !.pc = "returned", !.out = "refresh auth header"]
           ELSE IF answer.err
           THEN [@ EXCEPT !.pc = "returned", !.out = "retry request",
                          !.attempts = Append(@, Attempt(gor[g].result.value, answer))]
           ELSE [@ EXCEPT !.pc = "promote",
                          !.attempts = Append(@, Attempt(gor[g].result.value, answer))]]
    /\ UNCHANGED <<clock, verifierVars, authenticator, tokens, authHeaders, flights, signed, gor, probe>>

\* Fetch: UpdateFromResponse on a 2xx answer, then the Response is returned.
FetchReturn(g) ==
    /\ client[g].kind = "Fetch" /\ client[g].pc = "promote"
    /\ IF IsSuccess(LastAttempt(g).status)
       THEN /\ tokens' = tokensAfterUpdate(client[g].target, LastAttempt(g).authorization)
            /\ gor' = [gor EXCEPT ![g] =
                   [Started("UpdateFromResponse", client[g].target, FALSE,
                            LastAttempt(g).authorization) EXCEPT !.pc = "done"]]
       ELSE UNCHANGED <<tokens, gor>>
    /\ client' = [client EXCEPT ![g].pc = "returned", ![g].out = "response"]
    /\ UNCHANGED <<clock, verifierVars, authenticator, authHeaders, flights, signed, probe>>

\* RoundTrip up to t.Authenticator.GenerateHeader(req.URL.String()).
RoundTrip(g, target) ==
    /\ client[g].pc = "idle"
    /\ MayStart(g)
    /\ gor' = [gor EXCEPT ![g] = enterHeader(target, FALSE)]
    /\ client' = [client EXCEPT ![g] =
           [IdleClient EXCEPT !.pc = "header", !.kind = "RoundTrip", !.target = target]]
    /\ UNCHANGED <<clock, verifierVars, authenticator, tokens, authHeaders, flights, signed, probe>>

\* RoundTrip: GenerateHeader returned; base.RoundTrip and the server's answer.
RoundTripSend(g, answer) ==
    /\ client[g].kind = "RoundTrip" /\ client[g].pc = "header" /\ gor[g].pc = "done"
    /\ client' = [client EXCEPT ![g] =
           IF gor[g].result.err # ""
           THEN [@ EXCEPT !.pc = "returned", !.out = "generating auth header"]
           ELSE IF answer.err
           THEN [@ EXCEPT !.pc = "returned", !.out = "transport error",
                          !.attempts = Append(@, Attempt(gor[g].result.value, answer))]
           ELSE [@ EXCEPT !.pc = "promote",
                          !.attempts = Append(@, Attempt(gor[g].result.value, answer))]]
    /\ UNCHANGED <<clock, verifierVars, authenticator, tokens, authHeaders, flights, signed, gor, probe>>

\* RoundTrip: UpdateFromResponse, then the response is returned.
RoundTripReturn(g) ==
    /\ client[g].kind = "RoundTrip" /\ client[g].pc = "promote"
    /\ tokens' = tokensAfterUpdate(client[g].target, LastAttempt(g).authorization)
    /\ gor' = [gor EXCEPT ![g] =
           [Started("UpdateFromResponse", client[g].target, FALSE,
                    LastAttempt(g).authorization) EXCEPT !.pc = "done"]]
    /\ client' = [client EXCEPT ![g].pc = "returned", ![g].out = "response"]
    /\ UNCHANGED <<clock, verifierVars, authenticator, authHeaders, flights, signed, probe>>

\* Two requests of one client through Fetch and RoundTrip, concurrently or
\* one after the other, against a server that may answer anything.
NextClient ==
    \/ \E opt \in AuthenticatorOptions : Create(opt)
    \/ \E g \in Pair : Fetch(g, TargetA)
    \/ \E g \in Pair : RoundTrip(g, TargetA)
    \/ \E g \in Pair : Do(g)
    \/ \E g \in Pair : DoubleCheck(g)
    \/ \E g \in Pair : EnsureMaterial(g)
    \/ \E g \in Pair : Sign(g)
    \/ \E g \in Pair : StoreHeader(g)
    \/ \E g \in Pair : Leave(g)
    \/ \E g \in Pair, answer \in Answers : FetchSend(g, answer)
    \/ \E g \in Pair : FetchClearToken(g)
    \/ \E g \in Pair : FetchForce(g)
    \/ \E g \in Pair, answer \in Answers : FetchRetry(g, answer)
    \/ \E g \in Pair : FetchReturn(g)
    \/ \E g \in Pair, answer \in Answers : RoundTripSend(g, answer)
    \/ \E g \in Pair : RoundTripReturn(g)

SpecClient == Init /\ [][NextClient]_vars

(***************************************************************************)
(* The server: Middleware(verifier) around a route, one request.           *)
(***************************************************************************)
\* Middleware up to VerifyAuthHeaderContext: the Authorization header and the host.
Serve(c, authorization, host, urlHost) ==
    /\ verifier.state = "ready"
    /\ served[c].pc = "idle" /\ call[c].pc = "idle"
    /\ served' = [served EXCEPT ![c] =
           IF authorization = EmptyAuthorization
           THEN [IdleExchange EXCEPT !.pc = "done", !.middleware = TRUE,
                                     !.status = StatusUnauthorized,
                                     !.body = "missing authorization header"]
           ELSE [IdleExchange EXCEPT !.pc = "verify", !.middleware = TRUE,
                                     !.authorization = authorization,
                                     !.host = IF host = "" THEN urlHost ELSE host]]
    /\ UNCHANGED <<clock, verifier, used, didCache, call, authVars, probe>>

\* VerifyAuthHeaderContext returned to the middleware.
Respond(c) ==
    /\ served[c].pc = "verify" /\ call[c].pc = "done"
    /\ served' = [served EXCEPT ![c] = Middleware(served[c], call[c].result)]
    /\ UNCHANGED <<clock, verifier, used, didCache, call, authVars, probe>>

\* A route that puts the guards behind no Middleware: the context is the
\* one the caller built, empty or with a DID installed under ContextKeyDID.
ServeWithContext(c, hasDID, did) ==
    /\ verifier.state = "ready"
    /\ served[c].pc = "idle" /\ call[c].pc = "idle"
    /\ served' = [served EXCEPT ![c] =
           [IdleExchange EXCEPT !.pc = "next", !.hasDID = hasDID,
                                !.did = IF hasDID THEN did ELSE EmptyText]]
    /\ UNCHANGED <<clock, verifier, used, didCache, call, authVars, probe>>

\* next.ServeHTTP: the guard of the route, then the application's handler.
ServeNext(c, guard) ==
    /\ served[c].pc = "next"
    /\ served' = [served EXCEPT ![c] =
           LET guarded == [served[c] EXCEPT !.guard = guard]
           IN IF guard.kind = "RequireDID" THEN RequireDID(guarded)
              ELSE IF guard.kind = "RequireSpecificDID"
              THEN RequireSpecificDID(guard.allowedDIDs, guarded)
              ELSE [guarded EXCEPT !.pc = "done", !.status = 200, !.handler = TRUE]]
    /\ UNCHANGED <<clock, verifier, used, didCache, call, authVars, probe>>

\* Two requests, interleaved, through the middleware of one verifier.
NextServer ==
    \/ \E config \in Deployments : Construct(config)
    \/ Tick
    \/ \E c \in Calls, r \in Traffic : Serve(c, r[1], r[2], "")
    \/ \E c \in Calls, r \in Traffic : Serve(c, r[1], "", r[2])
    \/ \E c \in Calls : served[c].pc = "verify"
                        /\ Begin(c, served[c].authorization, served[c].host)
    \/ \E c \in Calls, external \in {"true", "false", "error"} : NonceStep(c, external)
    \/ \E c \in Calls : Lookup(c)
    \/ \E c \in Calls, outcome \in {NoDoc} \cup {DocOf(d) : d \in DIDs} : Resolve(c, outcome)
    \/ \E c \in Calls : Store(c)
    \/ \E c \in Calls : Finish(c)
    \/ \E c \in Calls : Respond(c)
    \/ \E c \in Calls : ServeNext(c, Handler)

\* One request on a route with any guard, behind the middleware or behind none.
NextRoute ==
    \/ \E config \in Configs : Construct(config)
    \/ Tick
    \/ \E r \in Requests : Serve(1, r[1], r[2], "")
    \/ \E hasDID \in BOOLEAN, did \in DIDs \cup {PaddedDidA} : ServeWithContext(1, hasDID, did)
    \/ served[1].pc = "verify" /\ Begin(1, served[1].authorization, served[1].host)
    \/ \E external \in {"true", "false", "error"} : NonceStep(1, external)
    \/ Lookup(1)
    \/ \E outcome \in {NoDoc} \cup {DocOf(d) : d \in DIDs} : Resolve(1, outcome)
    \/ Store(1)
    \/ Finish(1)
    \/ Respond(1)
    \/ \E guard \in Guards : ServeNext(1, guard)

SpecRoute == Init /\ [][NextRoute]_vars

SpecServer == Init /\ [][NextServer]_vars

(***************************************************************************)
(* The pure functions, applied to inputs drawn at the start.               *)
(***************************************************************************)
\* WrapAuthError and NewErrorWithStatus on a sentinel, a cause and a status,
\* then errors.Is and GetStatusCode on what they returned.
WrapAndClassify ==
    /\ probe.fn = "errors" /\ ~probe.applied
    /\ LET in == probe.input
           wrapped == WrapAuthError(in.sentinel, in.message, in.cause)
       IN probe' = [probe EXCEPT !.applied = TRUE, !.output =
              [wrapped |-> Observed(wrapped, in.defaultCode),
               withStatus |-> Observed(ErrorWithStatus(in.sentinel, in.statusCode),
                                       in.defaultCode),
               both |-> Observed(ErrorWithStatus(wrapped, in.statusCode),
                                 in.defaultCode)]]
    /\ UNCHANGED <<clock, verifierVars, authVars>>

\* A header is written by String and parsed back.
FormatAndParse ==
    /\ probe.fn = "header" /\ ~probe.applied
    /\ LET text == Sprintf(probe.input)
       IN probe' = [probe EXCEPT !.applied = TRUE, !.output =
              [how |-> "String", text |-> text, parsed |-> parseAuthHeaderText(text)]]
    /\ UNCHANGED <<clock, verifierVars, authVars>>

\* The same pairs are written in another order and parsed.
ParseReordered(order) ==
    /\ probe.fn = "header" /\ ~probe.applied
    /\ LET text == <<"DIDWba", " ">> \o JoinPairs(Reordered(Pairs(probe.input), order))
       IN probe' = [probe EXCEPT !.applied = TRUE, !.output =
              [how |-> "reordered", text |-> text, parsed |-> parseAuthHeaderText(text)]]
    /\ UNCHANGED <<clock, verifierVars, authVars>>

\* The pairs but the one of a key are written and parsed.
ParseWithout(key) ==
    /\ probe.fn = "header" /\ ~probe.applied
    /\ LET text == <<"DIDWba", " ">> \o JoinPairs(Without(Pairs(probe.input), key))
       IN probe' = [probe EXCEPT !.applied = TRUE, !.output =
              [how |-> "without", text |-> text, parsed |-> parseAuthHeaderText(text)]]
    /\ UNCHANGED <<clock, verifierVars, authVars>>

InitHeader ==
    /\ InitProgram
    /\ probe \in {[NoProbe EXCEPT !.fn = "header", !.input = parts] : parts \in WellFormedParts}

NextHeader ==
    \/ FormatAndParse
    \/ \E order \in Orders : ParseReordered(order)
    \/ \E key \in HeaderKeys : ParseWithout(key)

SpecHeader == InitHeader /\ [][NextHeader]_vars

\* CreateDIDWBADocument builds the DID; the resolver derives the URL from it.
BuildAndLocate ==
    /\ probe.fn = "did" /\ ~probe.applied
    /\ LET built == buildDID(probe.input.hostname, probe.input.port,
                             probe.input.pathSegments)
       IN probe' = [probe EXCEPT !.applied = TRUE, !.output =
              [did |-> built.did, located |-> didToURL(built.did)]]
    /\ UNCHANGED <<clock, verifierVars, authVars>>

InitDID ==
    /\ InitProgram
    /\ probe \in {[NoProbe EXCEPT !.fn = "did", !.input = in] : in \in DIDInputs}

SpecDID == InitDID /\ [][BuildAndLocate]_vars

InitErrors ==
    /\ InitProgram
    /\ probe \in {[NoProbe EXCEPT !.fn = "errors", !.input = in] : in \in ErrorInputs}

SpecErrors == InitErrors /\ [][WrapAndClassify]_vars

(***************************************************************************)
(* MemoryNonceValidator on its own: Validate calls as time passes, with    *)
(* the calls and their answers logged.                                     *)
(***************************************************************************)
MaxValidations == 3

\* validator.Validate(ctx, did, nonce), called directly.
ValidateDirect(did, nonce) ==
    /\ verifier.state = "ready" /\ verifier.config.NonceValidator = "memory"
    /\ probe.fn = "nonce" /\ Len(probe.output) < MaxValidations
    /\ LET v == Validate(used, verifier.config.NonceExpiration, did, nonce, clock)
       IN /\ used' = v.used
          /\ probe' = [probe EXCEPT !.applied = TRUE, !.output =
                 Append(@, [did |-> did, nonce |-> nonce, at |-> clock, ok |-> v.ok])]
    /\ UNCHANGED <<clock, verifier, didCache, call, served, authVars>>

InitNonce == InitProgram /\ probe = [NoProbe EXCEPT !.fn = "nonce"]

NextNonce ==
    \/ \E config \in Deployments : Construct(config)
    \/ Tick
    \/ \E did \in DIDs, nonce \in Nonces : ValidateDirect(did, nonce)

SpecNonce == InitNonce /\ [][NextNonce]_vars

(***************************************************************************)
(* The composed system: Fetch clients of one Authenticator against a       *)
(* server whose middleware asks one verifier.  A request is handled in one *)
(* step; the server logs each request and how it ended.                    *)
(***************************************************************************)
\* VerifyAuthHeaderContext on a request, with a resolver that finds the
\* hosted document: the result, and the nonce records and DID cache after it.
VerifyAuthHeader(authorization, domain) ==
    LET cfg == verifier.config
        parsed == parseAuthHeader(authorization)
        did == parsed.parts.DID
        domainErr == ensureDomainAllowed(cfg, domain)
        timeErr == verifyTimestamp(cfg, parsed.parts.Timestamp, clock)
        v == Validate(used, cfg.NonceExpiration, did, parsed.parts.Nonce, clock)
        nonceErr == verifyNonce(IF v.ok THEN "true" ELSE "false")
        doc == IF CacheHit(did) THEN didCache[did].doc ELSE DocOf(did)
        stored == IF CacheHit(did) THEN didCache
                  ELSE (did :> [doc |-> doc, expiresAt |-> clock + cfg.DIDCacheExpiration])
                       @@ didCache
        end(result) == [result |-> result, used |-> used, didCache |-> didCache]
    IN IF authorization = EmptyAuthorization
       THEN end(Failure(NewErrorWithStatus("missing_auth", StatusUnauthorized,
                                           "missing authorization header")))
       ELSE IF authorization.scheme = "Bearer "
       THEN end(handleBearerAuth(cfg, authorization, clock))
       ELSE IF domainErr # NoError THEN end(Failure(domainErr))
       ELSE IF parsed.err
       THEN end(Failure(NewErrorWithStatus("invalid_auth_header", StatusUnauthorized,
                                           "parse auth header")))
       ELSE IF timeErr # NoError THEN end(Failure(timeErr))
       ELSE IF nonceErr # NoError
       THEN [result |-> Failure(nonceErr), used |-> v.used, didCache |-> didCache]
       ELSE [result |-> issueToken(cfg, authorization, doc, domain, clock),
             used |-> v.used, didCache |-> stored]

\* Fetch's performRequest, first or retried, answered by the middleware and
\* the handler behind it.
performRequest(g) ==
    /\ verifier.state = "ready"
    /\ client[g].kind = "Fetch" /\ client[g].pc \in {"header", "refreshed"}
    /\ gor[g].pc = "done"
    /\ IF gor[g].result.err # ""
       THEN /\ client' = [client EXCEPT ![g].pc = "returned",
                             ![g].out = IF client[g].pc = "header"
                                        THEN "failed to get auth header"
                                        ELSE "refresh auth header"]
            /\ UNCHANGED <<used, didCache, probe>>
       ELSE LET credential == gor[g].result.value
                v == VerifyAuthHeader(credential, gor[g].domain)
                exchange == Middleware([IdleExchange EXCEPT !.pc = "verify",
                                            !.middleware = TRUE,
                                            !.authorization = credential,
                                            !.host = gor[g].domain], v.result)
                answer == Answer(IF exchange.pc = "next" THEN 200 ELSE exchange.status,
                                 exchange.responseAuthorization)
            IN /\ client' = [client EXCEPT ![g] =
                      [@ EXCEPT !.pc = IF client[g].pc = "header"
                                          /\ answer.status = StatusUnauthorized
                                       THEN "clear" ELSE "promote",
                                !.attempts = Append(@, Attempt(credential, answer))]]
               /\ used' = v.used
               /\ didCache' = v.didCache
               /\ probe' = [probe EXCEPT !.applied = TRUE, !.output =
                      Append(@, [by |-> g, attempt |-> Len(client[g].attempts) + 1,
                                 kind |-> v.result.err.kind, status |-> answer.status])]
    /\ UNCHANGED <<clock, verifier, call, served, authenticator, tokens, authHeaders,
                   flights, signed, gor>>

InitSystem == InitProgram /\ probe = [NoProbe EXCEPT !.fn = "server"]

\* Concurrent Fetch calls of one client to one domain.
NextSystem ==
    \/ Create(WithDIDMaterial(DocOf(DidA), KeyOf(DidA)))
    \/ Construct(BaseConfig)
    \/ \E g \in Goroutines : Fetch(g, TargetA)
    \/ \E g \in Goroutines : Do(g)
    \/ \E g \in Goroutines : DoubleCheck(g)
    \/ \E g \in Goroutines : EnsureMaterial(g)
    \/ \E g \in Goroutines : Sign(g)
    \/ \E g \in Goroutines : StoreHeader(g)
    \/ \E g \in Goroutines : Leave(g)
    \/ \E g \in Goroutines : performRequest(g)
    \/ \E g \in Goroutines : FetchClearToken(g)
    \/ \E g \in Goroutines : FetchForce(g)
    \/ \E g \in Goroutines : FetchReturn(g)

SpecSystem == InitSystem /\ [][NextSystem]_vars

(***************************************************************************)
(* Properties.                                                             *)
(***************************************************************************)
IsDidAuth(c) ==
    call[c].pc # "idle" /\ call[c].authorization # EmptyAuthorization
    /\ call[c].authorization.scheme # "Bearer "
Granted(c) == call[c].pc = "done" /\ call[c].result.ok /\ call[c].result.token_type = "bearer"
SamePair(c, d) == Parts(c).DID = Parts(d).DID /\ Parts(c).Nonce = Parts(d).Nonce
Memory == verifier.state = "ready" /\ verifier.config.NonceValidator = "memory"
Gap(c, d) ==
    IF call[c].valAt >= call[d].valAt THEN call[c].valAt - call[d].valAt
    ELSE call[d].valAt - call[c].valAt

\* C1: with a MemoryNonceValidator, two DIDWba calls that carry the same
\* (did, nonce) pair both succeed only when the validator accepted them more
\* than the validator TTL apart; within one record's lifetime at most one
\* succeeds.
C1_AtMostOneSuccessPerNonceWindow ==
    Memory =>
        \A c, d \in Calls :
            (c # d /\ Granted(c) /\ Granted(d) /\ SamePair(c, d))
                => Gap(c, d) > verifier.config.NonceExpiration

C1_Witness ==
    /\ Memory
    /\ \E c, d \in Calls :
          /\ c # d /\ Granted(c) /\ SamePair(c, d)
          /\ call[d].pc = "done" /\ call[d].answer = "false" /\ ~call[d].result.ok

\* C4: NewDidWbaVerifier fails with "nonce validator missing" and yields no
\* verifier whenever the configuration has no NonceValidator, whatever the
\* other fields hold; a verifier that exists, and every call it serves, has a
\* validator.
C4_MissingNonceValidatorRejected ==
    /\ \A config \in Configs :
          config.NonceValidator = "nil" =>
              /\ NewDidWbaVerifier(config).state = "failed"
              /\ NewDidWbaVerifier(config).err = "nonce_validator_missing"
    /\ (verifier # NoVerifier /\ verifier.config.NonceValidator = "nil") =>
          /\ verifier.state = "failed"
          /\ verifier.err = "nonce_validator_missing"
    /\ \A c \in Calls : call[c].pc # "idle" =>
          /\ verifier.state = "ready"
          /\ verifier.config.NonceValidator # "nil"

C4_Witness ==
    /\ verifier.state = "failed"
    /\ verifier.err = "nonce_validator_missing"
    /\ verifier.config.NonceValidator = "nil"
    /\ verifier.config.JWTPrivateKey = "nil"
    /\ verifier.config.JWTPrivateKeyPEM # ""

NotListed(c) ==
    /\ Len(verifier.config.AllowedDomains) > 0
    /\ \A i \in 1..Len(verifier.config.AllowedDomains) :
          ToLower(TrimSpace(verifier.config.AllowedDomains[i])) # ToLower(call[c].domain)

\* C5: a DIDWba request for a domain outside a non-empty allow-list ends with
\* domain_not_allowed / 403 before any other work: the header is not parsed,
\* the nonce validator and the resolver are not called, and the step that
\* rejects it leaves the nonce records and the DID cache as they were.
C5_DomainRejectedFirst ==
    /\ [](\A c \in Calls : (IsDidAuth(c) /\ NotListed(c)) =>
            /\ call[c].pc = "done"
            /\ ~call[c].result.ok
            /\ call[c].result.err.kind = "domain_not_allowed"
            /\ call[c].result.err.status = StatusForbidden
            /\ call[c].steps = {}
            /\ call[c].answer = "none"
            /\ call[c].doc = NoDoc)
    /\ [][\A c \in Calls :
            (call[c].pc = "idle" /\ call'[c].pc # "idle"
             /\ call'[c].result.err.kind = "domain_not_allowed")
                => UNCHANGED <<used, didCache>>]_vars

C5_Witness ==
    \E c, d \in Calls :
        /\ IsDidAuth(c) /\ NotListed(c)
        /\ call[c].authorization = String(SingleHash(DidA, Nonce1, 0))
        /\ call[c].result.err.kind = "domain_not_allowed"
        /\ Granted(d)
        /\ DOMAIN used # {} /\ DOMAIN didCache # {}

\* The step in which call c arrives at verifyTimestamp with a timestamp that
\* parses, and the timestamp it carries.
ReachesTimestampCheck(c) ==
    /\ call[c].pc = "idle"
    /\ "timestamp" \in call'[c].steps
    /\ ~ParseRFC3339(parseAuthHeader(call'[c].authorization).parts.Timestamp).err
TimestampOf(authorization) ==
    ParseRFC3339(parseAuthHeader(authorization).parts.Timestamp).t
RejectedWith(r, kind, status) ==
    ~r.ok /\ r.err.kind = kind /\ r.err.status = status

\* C6 (as the code behaves): a timestamp that is not in the future is rejected
\* with timestamp_expired / 401 exactly when it is strictly older than
\* TimestampExpiration; one that is exactly TimestampExpiration old, or
\* younger, passes the timestamp check.
C6_ExpiredOnlyWhenStrictlyOlder ==
    [][\A c \in Calls :
        LET ts == TimestampOf(call'[c].authorization)
            age == clock - ts
        IN (ReachesTimestampCheck(c) /\ ts <= clock + DefaultTimestampTolerance) =>
              /\ age <= verifier.config.TimestampExpiration => call'[c].pc = "nonce"
              /\ age > verifier.config.TimestampExpiration =>
                    /\ call'[c].pc = "done"
                    /\ RejectedWith(call'[c].result, "timestamp_expired",
                                    StatusUnauthorized)]_vars

\* C6 (as the specification states it): a timestamp exactly
\* TimestampExpiration old is rejected with timestamp_expired / 401, and one
\* that is one second younger passes.
C6_ExactlyExpirationOldRejected ==
    [][\A c \in Calls :
        LET ts == TimestampOf(call'[c].authorization)
            age == clock - ts
        IN ReachesTimestampCheck(c) =>
              /\ age = verifier.config.TimestampExpiration =>
                    /\ call'[c].pc = "done"
                    /\ RejectedWith(call'[c].result, "timestamp_expired",
                                    StatusUnauthorized)
              /\ age = verifier.config.TimestampExpiration - 1 =>
                    call'[c].pc = "nonce"]_vars

C6_Witness ==
    \E c \in Calls :
        /\ call[c].pc = "nonce"
        /\ clock - TimestampOf(call[c].authorization) = verifier.config.TimestampExpiration

\* C7: a timestamp one second more than the one-minute tolerance ahead of the
\* verifier's clock is rejected with timestamp_future / 400, and one exactly
\* at the tolerance passes, whatever TimestampExpiration is configured.
C7_FutureTolerance ==
    [][\A c \in Calls :
        LET ts == TimestampOf(call'[c].authorization)
        IN ReachesTimestampCheck(c) =>
              /\ ts = clock + DefaultTimestampTolerance + 1 =>
                    /\ call'[c].pc = "done"
                    /\ RejectedWith(call'[c].result, "timestamp_future", StatusBadRequest)
              /\ ts = clock + DefaultTimestampTolerance => call'[c].pc = "nonce"]_vars

C7_Witness ==
    \E c \in Calls :
        /\ call[c].pc = "nonce"
        /\ TimestampOf(call[c].authorization) = clock + DefaultTimestampTolerance
        /\ verifier.config.TimestampExpiration # DefaultTimestampExpiration

PastNonceStep(c) ==
    \/ call[c].pc \in {"lookup", "resolve", "store", "verify"}
    \/ call[c].pc = "done" /\ call[c].steps \cap {"resolver", "signature"} # {}
NoResolverNoToken(c) ==
    /\ "resolver" \notin call[c].steps
    /\ "signature" \notin call[c].steps
    /\ call[c].doc = NoDoc
    /\ ~call[c].result.ok
    /\ call[c].result.access_token = NoToken

\* C9: the verifier takes the uniqueness decision from the injected
\* validator, which it calls with the header's (did, nonce): a validator
\* error ends the call with nonce_validator_failure / 500, a false answer
\* ends it with status 401, in both cases without the resolver being called
\* or a token issued; a true answer is never overruled at the nonce step,
\* and no call goes past that step without it.
C9_ValidatorDecides ==
    \A c \in Calls :
        /\ "validator" \in call[c].steps =>
              call[c].valDID = Parts(c).DID /\ call[c].valNonce = Parts(c).Nonce
        /\ call[c].answer = "error" =>
              /\ call[c].pc = "done"
              /\ RejectedWith(call[c].result, "nonce_validator_failure",
                              StatusInternalServerError)
              /\ NoResolverNoToken(c)
        /\ call[c].answer = "false" =>
              /\ call[c].pc = "done"
              /\ ~call[c].result.ok
              /\ call[c].result.err.status = StatusUnauthorized
              /\ NoResolverNoToken(c)
        /\ call[c].answer = "true" =>
              /\ PastNonceStep(c)
              /\ call[c].result.err.kind \notin {"nonce_invalid", "nonce_validator_failure"}
        /\ PastNonceStep(c) => call[c].answer = "true"

C9_Witness ==
    \E c \in Calls :
        /\ verifier.config.NonceValidator = "external"
        /\ call[c].answer = "error" /\ call[c].pc = "done"
        /\ call[c].valDID = DidA /\ call[c].valNonce = Nonce1

\* The other calls whose pair the MemoryNonceValidator accepted and still
\* holds at the present second.
LiveAccepted(c) ==
    {d \in Calls \ {c} :
        /\ call[d].answer = "true"
        /\ ~(clock - call[d].valAt > verifier.config.NonceExpiration)}

CarriesGenerated(c) ==
    /\ call[c].domain = ServiceDomain
    /\ \E did \in DIDs, nonce \in Nonces :
          call[c].authorization = String(Generated(did, nonce))

\* C2: a header GenerateAuthHeader builds for a service domain from a DID's
\* key and document passes the verifier's signature check for that domain
\* and document.
C2_GeneratedHeaderVerifies ==
    \A c \in Calls :
        (CarriesGenerated(c) /\ "signature" \in call[c].steps
         /\ call[c].doc = DocOf(Parts(c).DID)) =>
            /\ verifySignature(call[c].authorization, call[c].doc, call[c].domain).isValid
            /\ call[c].result.err.kind # "invalid_signature"

HasJWTKeys ==
    verifier.config.JWTPrivateKey # "nil" /\ verifier.config.JWTPublicKey # "nil"

\* C3: with JWT keys configured, a generated header for an allowed domain,
\* whose nonce the validator accepts and whose DID resolves, is answered with
\* {access_token, token_type "bearer", did}; the token presented as a Bearer
\* value is then answered with that did and no access_token.
C3_HappyPath ==
    /\ \A c \in Calls :
          (HasJWTKeys /\ CarriesGenerated(c) /\ call[c].pc = "done"
           /\ call[c].answer = "true" /\ call[c].doc = DocOf(Parts(c).DID)) =>
              /\ call[c].result.ok
              /\ call[c].result.access_token # NoToken
              /\ call[c].result.token_type = "bearer"
              /\ call[c].result.did = Parts(c).DID
    /\ \A c, d \in Calls :
          (Granted(c) /\ call[d].pc = "done"
           /\ call[d].authorization = BearerAuthorization(call[c].result.access_token)) =>
              /\ call[d].result.ok
              /\ call[d].result.did = call[c].result.did
              /\ call[d].result.access_token = NoToken

\* C8: when one valid header is presented twice within the nonce TTL, the
\* first call succeeds and the second is rejected with nonce_reused / 401.
C8_ReplayReportedAsNonceReused ==
    \A c, d \in Calls :
        (c # d /\ Granted(c) /\ Memory
         /\ call[d].authorization = call[c].authorization
         /\ call[d].domain = call[c].domain
         /\ call[d].pc = "done"
         /\ call[d].answer = "false") =>
            RejectedWith(call[d].result, "nonce_reused", StatusUnauthorized)

\* The calls that carry a header minted for ServiceDomain, by either signing
\* discipline.
MintedForService(c) ==
    \E did \in DIDs, nonce \in Nonces :
        call[c].authorization \in {String(Generated(did, nonce)),
                                   String(SingleHash(did, nonce, 0))}

\* C11: a header minted for one service domain and presented for another
\* (allowed) domain, with a valid timestamp, an accepted nonce and its DID
\* resolved, is rejected at the signature step with invalid_signature / 403,
\* and no access token is issued.
C11_ForeignDomainFailsSignature ==
    \A c \in Calls :
        (MintedForService(c) /\ call[c].domain # ServiceDomain
         /\ call[c].pc = "done" /\ call[c].answer = "true"
         /\ call[c].doc = DocOf(Parts(c).DID)) =>
            /\ "signature" \in call[c].steps
            /\ RejectedWith(call[c].result, "invalid_signature", StatusForbidden)
            /\ call[c].result.access_token = NoToken

C11_Witness ==
    \E c \in Calls :
        /\ call[c].authorization = String(SingleHash(DidA, Nonce1, 0))
        /\ call[c].domain = "EXAMPLE.COM"
        /\ Len(verifier.config.AllowedDomains) > 0
        /\ call[c].pc = "done" /\ call[c].answer = "true"
        /\ call[c].result.err.kind = "invalid_signature"

\* C12: a DIDWba header whose verification_method names no entry of the
\* resolved document (a missing fragment, or the full <did>#<fragment> URI)
\* is rejected with an error of the verification_method_not_found kind.
C12_UnknownMethodReported ==
    \A c \in Calls :
        (call[c].pc = "done" /\ "signature" \in call[c].steps
         /\ call[c].doc = DocOf(Parts(c).DID)
         /\ selectVerificationMethodForFragment(call[c].doc,
                                                Parts(c).VerificationMethod).err) =>
            /\ ~call[c].result.ok
            /\ call[c].result.err.kind = "verification_method_not_found"

IsBearer(c) == call[c].pc # "idle" /\ call[c].authorization.scheme = "Bearer "

IsGenerateHeader(g) ==
    gor[g].pc # "idle" /\ gor[g].op = "GenerateHeader" /\ ~getDomain(gor[g].target).err

\* g computed a signature.
SignedBy(g) == \E i \in 1..Len(signed) : signed[i].by = g

\* C14: a GenerateHeader call that starts while a bearer token is stored for
\* its domain returns "Bearer " and that token, computing no signature, also
\* when a DIDWba header is cached for the domain; one that starts with no
\* token but a cached DIDWba header returns that header as it is.
C14_TokenThenHeader ==
    \A g \in Goroutines :
        IsGenerateHeader(g) =>
            LET d == gor[g].domain
                b == gor[g].began
            IN /\ d \in DOMAIN b.tokens =>
                      /\ gor[g].pc = "done"
                      /\ gor[g].result = Returned(BearerAuthorization(b.tokens[d]))
                      /\ ~SignedBy(g)
               /\ (d \notin DOMAIN b.tokens /\ d \in DOMAIN b.authHeaders) =>
                      /\ gor[g].pc = "done"
                      /\ gor[g].result = Returned(b.authHeaders[d])
                      /\ ~SignedBy(g)

C14_Witness ==
    \E g \in Goroutines :
        /\ IsGenerateHeader(g)
        /\ gor[g].domain \in DOMAIN gor[g].began.tokens
        /\ gor[g].domain \in DOMAIN gor[g].began.authHeaders
        /\ gor[g].result = Returned(BearerAuthorization(TokenX))

\* Every goroutine made a GenerateHeader call, all have returned, and the
\* credentials could be loaded.
OnlyGenerateHeaderCalls ==
    /\ ~authenticator.loadErr
    /\ \A g \in Goroutines : IsGenerateHeader(g) /\ gor[g].pc = "done"

\* The signature computations made for a domain.
SignedFor(d) == {i \in 1..Len(signed) : gor[signed[i].by].domain = d}

\* C15: when GenerateHeader calls are all that runs on an Authenticator with
\* empty caches, each domain asked for gets exactly one signature
\* computation, every call for the domain returns the header that computation
\* made, and the cache holds that header for each of these domains and
\* nothing else.
C15_OneSignaturePerDomain ==
    OnlyGenerateHeaderCalls =>
        /\ \A g \in Goroutines :
               /\ Cardinality(SignedFor(gor[g].domain)) = 1
               /\ gor[g].result.err = ""
               /\ \A i \in SignedFor(gor[g].domain) :
                      gor[g].result.value = String(signed[i].header)
               /\ authHeaders[gor[g].domain] = gor[g].result.value
        /\ DOMAIN authHeaders = {gor[g].domain : g \in Goroutines}
        /\ DOMAIN tokens = {}

C15_Witness ==
    /\ OnlyGenerateHeaderCalls
    /\ \A g \in Goroutines : gor[g].began.authHeaders = <<>>
    /\ \E g, h \in Goroutines : g # h /\ gor[g].domain = gor[h].domain
    /\ Cardinality({gor[g].domain : g \in Goroutines}) > 1
    /\ Cardinality(DOMAIN authHeaders) > 1

\* A GenerateHeaderForce call that returned without error.
ForcedReturned(g) ==
    gor[g].op = "GenerateHeaderForce" /\ gor[g].pc = "done" /\ gor[g].result.err = ""

\* The value g returned was signed after g's call started.
SignedDuringCall(g) ==
    \E i \in 1..Len(signed) :
        i > gor[g].began.signed /\ gor[g].result.value = String(signed[i].header)

\* C16: every successful GenerateHeaderForce call returns a DIDWba header
\* whose signature was computed after the call started, never a Bearer token
\* and never a header computed before.
C16_ForceReturnsFreshHeader ==
    \A g \in Goroutines :
        ForcedReturned(g) =>
            gor[g].result.value.scheme = "DIDWba" /\ SignedDuringCall(g)

\* C17: any two signature computations of the Authenticator (for a header or
\* for a JSON payload) differ in nonce and in timestamp.
C17_NonceAndTimestampDiffer ==
    \A i, j \in 1..Len(signed) :
        i # j =>
            /\ signed[i].header.Nonce # signed[j].header.Nonce
            /\ signed[i].header.Timestamp # signed[j].header.Timestamp

\* C18: UpdateFromResponse for a target with a domain stores the text after
\* "Bearer " as that domain's token, over any earlier one, when the response's
\* Authorization value starts with "Bearer ", and leaves the tokens alone for
\* any other value; the tokens of other domains and all cached DIDWba headers
\* stay as they were.
C18_UpdateStoresOnlyToken ==
    [][\A g \in Goroutines, target \in Targets, token \in ResponseAuthorizations :
           (UpdateFromResponse(g, target, token) /\ ~getDomain(target).err) =>
               LET d == getDomain(target).domain
               IN /\ authHeaders' = authHeaders
                  /\ IF token.scheme = "Bearer "
                     THEN /\ DOMAIN tokens' = DOMAIN tokens \cup {d}
                          /\ tokens'[d] = token.token
                          /\ \A k \in DOMAIN tokens \ {d} : tokens'[k] = tokens[k]
                     ELSE tokens' = tokens]_vars

C18_Witness ==
    \E g \in Goroutines :
        /\ gor[g].op = "UpdateFromResponse"
        /\ gor[g].arg = BearerAuthorization(TokenY)
        /\ gor[g].domain \in DOMAIN gor[g].began.tokens
        /\ gor[g].began.tokens[gor[g].domain] = TokenX
        /\ tokens[gor[g].domain] = TokenY

\* A ClearToken call for a target with a domain.
IsClearToken(g) ==
    gor[g].pc # "idle" /\ gor[g].op = "ClearToken" /\ ~getDomain(gor[g].target).err

\* h is the first GenerateHeader call for g's domain that started after g,
\* it has returned a value, and no token was stored for the domain after g.
NextGenerateHeader(g, h) ==
    /\ h > g /\ IsGenerateHeader(h) /\ gor[h].domain = gor[g].domain
    /\ \A k \in Goroutines :
           (g < k /\ k < h) => ~(IsGenerateHeader(k) /\ gor[k].domain = gor[g].domain)
    /\ \A k \in Goroutines :
           g < k => ~(gor[k].op = "UpdateFromResponse" /\ gor[k].domain = gor[g].domain)
    /\ gor[h].pc = "done" /\ gor[h].result.err = ""

\* The value h returned was signed after g's call.
SignedAfter(g, h) ==
    \E i \in 1..Len(signed) :
        i > gor[g].began.signed /\ gor[h].result.value = String(signed[i].header)

\* ClearToken removes both entries of its target's domain and nothing else.
ClearTokenStep ==
    \A g \in Goroutines, target \in Targets :
        (ClearToken(g, target) /\ ~getDomain(target).err) =>
            LET d == getDomain(target).domain
            IN /\ tokens' = [k \in DOMAIN tokens \ {d} |-> tokens[k]]
               /\ authHeaders' = [k \in DOMAIN authHeaders \ {d} |-> authHeaders[k]]

\* No header call for g's domain was in progress when g started.
Quiet(g) ==
    \A k \in gor[g].began.pending :
        gor[k].op = "GenerateJSON" \/ gor[k].domain # gor[g].domain

\* C19 as stated: ClearToken leaves neither a token nor a DIDWba header for
\* its domain and keeps every other entry, and the next GenerateHeader for
\* the domain returns a header signed after the ClearToken call.
C19_ClearThenFreshHeader ==
    /\ [][ClearTokenStep]_vars
    /\ [](\A g, h \in Goroutines :
              (IsClearToken(g) /\ NextGenerateHeader(g, h)) => SignedAfter(g, h))

\* C19, amended: the same, for a ClearToken call made while no header call
\* for the domain is in progress.
C19_QuietClearThenFreshHeader ==
    /\ [][ClearTokenStep]_vars
    /\ [](\A g, h \in Goroutines :
              (IsClearToken(g) /\ Quiet(g) /\ NextGenerateHeader(g, h)) => SignedAfter(g, h))

C19_Witness ==
    \E g, h \in Goroutines :
        /\ IsClearToken(g) /\ Quiet(g) /\ NextGenerateHeader(g, h)
        /\ gor[g].domain \in DOMAIN gor[g].began.authHeaders
        /\ gor[g].domain \notin DOMAIN gor[h].began.authHeaders
        /\ SignedAfter(g, h)
        /\ SignedBy(h)

\* The Authenticator state a call with an unparsable target must leave alone.
UnparsableTargetStep ==
    \A g \in Goroutines :
        \/ \E force \in BOOLEAN : header(g, BadTarget, force)
        \/ GenerateJSON(g, BadTarget)
        \/ \E token \in ResponseAuthorizations : UpdateFromResponse(g, BadTarget, token)
        \/ ClearToken(g, BadTarget)
        => /\ UNCHANGED <<tokens, authHeaders, authenticator, flights, signed>>
           /\ gor'[g].pc = "done"

\* C20: a call whose target URL cannot be parsed returns at once, header and
\* GenerateJSON with an error, leaving both caches as they were, loading no
\* credentials and computing no signature.
C20_UnparsableTargetLeavesState ==
    /\ [][UnparsableTargetStep]_vars
    /\ [](\A g \in Goroutines :
              gor[g].target = BadTarget =>
                  /\ gor[g].pc = "done"
                  /\ ~SignedBy(g)
                  /\ gor[g].op \in {"GenerateHeader", "GenerateHeaderForce", "GenerateJSON"}
                         => gor[g].result = Failed("parse url"))

C20_Witness ==
    \E g \in Goroutines :
        /\ gor[g].target = BadTarget
        /\ gor[g].op = "GenerateHeaderForce"
        /\ gor[g].result = Failed("parse url")
        /\ DOMAIN tokens # {}
        /\ ~authenticator.loadOnce
        /\ signed = <<>>

(***************************************************************************)
(* The clients.                                                            *)
(***************************************************************************)
\* g's request was answered 401 at its first attempt and a response came back
\* to the caller.
AnsweredUnauthorized(g) ==
    /\ client[g].pc = "returned" /\ client[g].out = "response"
    /\ client[g].attempts[1].status = StatusUnauthorized

\* C21: a request never makes more than two attempts; one whose first attempt
\* is answered 401 is sent exactly once more, with a credential other than the
\* rejected one, and the answer to that second attempt is what the caller gets.
C21_RetryOnceOnUnauthorized ==
    \A g \in Goroutines :
        /\ Len(client[g].attempts) <= 2
        /\ AnsweredUnauthorized(g) =>
               /\ Len(client[g].attempts) = 2
               /\ client[g].attempts[2].credential # client[g].attempts[1].credential

\* C22: when a client hands a response to UpdateFromResponse or returns it,
\* the token cache changes only if the response status is 2xx.
C22_PromotionOnlyOnSuccess ==
    [][\A g \in Goroutines :
           ((FetchReturn(g) \/ RoundTripReturn(g)) /\ ~IsSuccess(LastAttempt(g).status))
               => tokens' = tokens]_vars

\* h is a request to the domain of g's request, made after g's request had
\* returned and while no other call was in progress, and h has been sent.
SentAfter(g, h) ==
    /\ g < h
    /\ client[g].pc = "returned" /\ client[g].out = "response"
    /\ gor[h].domain = gor[g].domain
    /\ gor[h].began.pending = {}
    /\ Len(client[h].attempts) >= 1

\* The answer g's caller got carries a bearer token.
CarriesBearer(g) == LastAttempt(g).authorization.scheme = "Bearer "

\* h's request has made its first attempt only.
FirstAttemptOnly(h) == Len(client[h].attempts) = 1 /\ client[h].pc # "refreshed"

\* A client returns a response with a bearer token to its caller.
ReturnsBearer(g) ==
    /\ client[g].pc # "returned" /\ client'[g].pc = "returned"
    /\ client'[g].out = "response"
    /\ CarriesBearer(g)

\* C23 as stated: when the first of two sequential requests to a domain is
\* answered with a bearer token, the token is cached when the response is
\* returned, the second request carries it, and the second request computes
\* no signature.
C23_SecondRequestCarriesToken ==
    /\ [][\A g \in Goroutines :
              ReturnsBearer(g) =>
                  /\ gor[g].domain \in DOMAIN tokens'
                  /\ tokens'[gor[g].domain] = LastAttempt(g).authorization.token]_vars
    /\ [](\A g, h \in Goroutines :
              (SentAfter(g, h) /\ CarriesBearer(g)) =>
                  /\ client[h].attempts[1].credential =
                         BearerAuthorization(LastAttempt(g).authorization.token)
                  /\ FirstAttemptOnly(h) => ~SignedBy(h))

\* C23, amended: the same, for a first request answered with a 2xx status at
\* its first attempt; then one signature at most serves both requests.
C23_SecondRequestCarriesPromotedToken ==
    /\ [][\A g \in Goroutines :
              (ReturnsBearer(g) /\ IsSuccess(LastAttempt(g).status)) =>
                  /\ gor[g].domain \in DOMAIN tokens'
                  /\ tokens'[gor[g].domain] = LastAttempt(g).authorization.token]_vars
    /\ [](\A g, h \in Goroutines :
              (SentAfter(g, h) /\ CarriesBearer(g) /\ IsSuccess(LastAttempt(g).status)) =>
                  /\ client[h].attempts[1].credential =
                         BearerAuthorization(LastAttempt(g).authorization.token)
                  /\ FirstAttemptOnly(h) => ~SignedBy(h)
                  /\ (FirstAttemptOnly(h) /\ Len(client[g].attempts) = 1) =>
                         Len(signed) <= 1)

C23_Witness ==
    \E g, h \in Goroutines :
        /\ SentAfter(g, h) /\ CarriesBearer(g) /\ IsSuccess(LastAttempt(g).status)
        /\ client[g].kind = "RoundTrip" /\ client[h].kind = "RoundTrip"
        /\ client[g].attempts[1].credential.scheme = "DIDWba"
        /\ client[h].attempts[1].credential = BearerAuthorization(TokenX)
        /\ Len(signed) = 1

(***************************************************************************)
(* The server middleware.                                                  *)
(***************************************************************************)
\* The middleware handed the request on to the handler it wraps.
NextInvoked(c) == served[c].pc = "next" \/ served[c].guard.kind # ""

\* C24: the middleware invokes the handler it wraps only after the verifier
\* returned success for the request's Authorization value and domain; a
\* request without Authorization is answered 401 and the verifier is not
\* called; on a verifier failure the status is the one the error carries
\* (401 when it carries none) and the handler is not invoked.
C24_HandlerOnlyAfterVerification ==
    \A c \in Calls : served[c].middleware =>
        /\ NextInvoked(c) =>
              /\ call[c].pc = "done" /\ call[c].result.ok
              /\ call[c].authorization = served[c].authorization
              /\ call[c].domain = served[c].host
        /\ served[c].authorization = EmptyAuthorization =>
              /\ served[c].pc = "done" /\ served[c].status = StatusUnauthorized
              /\ call[c].pc = "idle" /\ ~NextInvoked(c)
        /\ (served[c].pc = "done" /\ call[c].pc = "done" /\ ~call[c].result.ok) =>
              /\ served[c].status = IF call[c].result.err.status # 0
                                    THEN call[c].result.err.status
                                    ELSE StatusUnauthorized
              /\ ~NextInvoked(c) /\ ~served[c].handler

\* A verifier failure with a status of its own was answered with that status.
C24_Witness ==
    \E c \in Calls :
        /\ served[c].middleware /\ served[c].pc = "done"
        /\ call[c].pc = "done" /\ ~call[c].result.ok
        /\ served[c].status = StatusForbidden /\ ~served[c].handler

\* C25: after a successful verification the handler's context yields the
\* authenticated DID; on the DIDWba path it also yields the access token the
\* verifier minted and the response carries "Bearer <token>"; on the Bearer
\* path the context holds no access token and the response no Authorization.
C25_ContextCarriesIdentity ==
    \A c \in Calls : (served[c].middleware /\ NextInvoked(c)) =>
        /\ DIDFromContext(served[c]) = [did |-> call[c].result.did, ok |-> TRUE]
        /\ IF IsBearer(c)
           THEN /\ ~AccessTokenFromContext(served[c]).ok
                /\ served[c].responseAuthorization = EmptyAuthorization
           ELSE /\ served[c].did = Parts(c).DID
                /\ call[c].result.access_token # NoToken
                /\ AccessTokenFromContext(served[c]) =
                       [token |-> call[c].result.access_token, ok |-> TRUE]
                /\ served[c].responseAuthorization =
                       BearerAuthorization(call[c].result.access_token)

\* One request came in with a signed header and one with the token it was given.
C25_Witness ==
    /\ served[1].middleware /\ served[1].handler /\ ~IsBearer(1)
    /\ served[2].middleware /\ served[2].handler /\ IsBearer(2)
    /\ call[2].authorization = served[1].responseAuthorization

\* RequireDID as the claim has it.
RequireDIDDecides(c) ==
    served[c].guard.kind = "RequireDID" =>
        IF served[c].hasDID THEN served[c].handler
        ELSE served[c].status = StatusUnauthorized /\ ~served[c].handler

\* C26 as stated: RequireDID answers 401 without calling the next handler
\* when the context holds no DID and calls it otherwise;
\* RequireSpecificDID(allowlist) answers 401 when no DID is in the context,
\* 403 when the DID is not in the allow-list, and calls the next handler
\* exactly when the DID is in the allow-list.
C26_GuardsDecideByAllowList ==
    \A c \in Calls : served[c].pc = "done" =>
        /\ RequireDIDDecides(c)
        /\ served[c].guard.kind = "RequireSpecificDID" =>
              IF ~served[c].hasDID
              THEN served[c].status = StatusUnauthorized /\ ~served[c].handler
              ELSE IF served[c].did \notin served[c].guard.allowedDIDs
              THEN served[c].status = StatusForbidden /\ ~served[c].handler
              ELSE served[c].handler

\* C26: as above, with the allow-list taken as its entries trimmed of
\* surrounding white space.
C26_GuardsDecideByTrimmedAllowList ==
    \A c \in Calls : served[c].pc = "done" =>
        /\ RequireDIDDecides(c)
        /\ served[c].guard.kind = "RequireSpecificDID" =>
              IF ~served[c].hasDID
              THEN served[c].status = StatusUnauthorized /\ ~served[c].handler
              ELSE IF served[c].did \notin {TrimSpaceText(d) : d \in served[c].guard.allowedDIDs}
              THEN served[c].status = StatusForbidden /\ ~served[c].handler
              ELSE served[c].handler

\* A DID the verifier authenticated passed an allow-list that names it with
\* blanks around it.
C26_Witness ==
    \E c \in Calls :
        /\ served[c].middleware /\ served[c].pc = "done" /\ served[c].handler
        /\ served[c].guard.kind = "RequireSpecificDID"
        /\ served[c].did \notin served[c].guard.allowedDIDs

(***************************************************************************)
(* The error helpers.                                                      *)
(***************************************************************************)
\* C27: for every sentinel S, cause c and status k, errors.Is matches S, and
\* no other sentinel, on WrapAuthError(S, msg, c), on NewErrorWithStatus(S, k)
\* and on NewErrorWithStatus(WrapAuthError(S, msg, c), k); GetStatusCode
\* returns k for the two that carry a status and the default for the first.
C27_WrappingPreservesKind ==
    (probe.fn = "errors" /\ probe.applied) =>
        LET in == probe.input
            out == probe.output
        IN /\ \A form \in {out.wrapped, out.withStatus, out.both} :
                  form.matches = {in.sentinel}
           /\ out.withStatus.code = in.statusCode
           /\ out.both.code = in.statusCode
           /\ out.wrapped.code = in.defaultCode

\* A sentinel was wrapped around a cause that is another sentinel with a
\* status of its own.
C27_Witness ==
    /\ probe.fn = "errors" /\ probe.applied
    /\ probe.input.cause.tag = "status"
    /\ probe.input.cause.Err # probe.input.sentinel
    /\ probe.input.cause.StatusCode # probe.input.statusCode
    /\ probe.output.wrapped.err.tag = "wrapped"

(***************************************************************************)
(* The header codec.                                                       *)
(***************************************************************************)
\* C28: for well-formed parts (five non-empty values without double quotes)
\* parseAuthHeader(String(parts)) returns exactly parts, the same five pairs
\* in any other order parse to the same parts, and a header that lacks one
\* of the five keys is rejected.
C28_HeaderRoundTrip ==
    (probe.fn = "header" /\ probe.applied) =>
        /\ probe.output.how \in {"String", "reordered"} =>
               probe.output.parsed = [err |-> FALSE, parts |-> probe.input]
        /\ probe.output.how = "without" => probe.output.parsed.err

\* A header whose values read like the beginning of a pair was written in
\* another order than String's and parsed.
C28_Witness ==
    /\ probe.fn = "header" /\ probe.applied /\ probe.output.how = "reordered"
    /\ probe.output.text # Sprintf(probe.input)
    /\ probe.input.Signature = <<"can", "did", "=">>
    /\ probe.input.DID = <<" ", "nonce", "=", "b", ",", " ">>
    /\ ~probe.output.parsed.err

(***************************************************************************)
(* DIDs and the URL of their document.                                     *)
(***************************************************************************)
\* The URL https://h[:p]/s1/.../sk/did.json (/.well-known/did.json without segments).
DocumentURL(hostname, port, segments) ==
    <<"https://">> \o hostname
    \o (IF port # NoPort THEN <<":", port>> ELSE <<>>)
    \o (IF Len(segments) = 0 THEN <<"/", ".well-known", "/", "did.json">>
        ELSE <<"/">> \o Join(segments, "/") \o <<"/", "did.json">>)

\* C29: for every hostname h, port p and path segments s1..sk the DID built
\* by CreateDIDWBADocument carries the port's colon percent-escaped in its
\* host part, the DID-to-URL derivation maps it to https://h:p/s1/.../sk/did.json
\* (https://h:p/.well-known/did.json without segments), and the port is never
\* read as a path segment.
C29_PortEscapedInHost ==
    (probe.fn = "did" /\ probe.applied) =>
        LET in == probe.input
            host == SplitN(probe.output.did, Len(<<"did", "wba", "domain", "path">>))[3]
        IN /\ in.port # NoPort => host = in.hostname \o <<"%3A", in.port>>
           /\ probe.output.located =
                  [err |-> FALSE,
                   url |-> DocumentURL(in.hostname, in.port,
                                       cleanedSegments(in.pathSegments))]

(***************************************************************************)
(* Loading the credential files.                                           *)
(***************************************************************************)
\* No file was opened twice.
LoadedAtMostOnce ==
    \A i, j \in DOMAIN authenticator.reads :
        authenticator.reads[i] = authenticator.reads[j] => i = j

\* Files are opened at construction exactly when eager loading was asked
\* for, and otherwise not before a call reached ensureMaterial.
LoadedOnFirstUse ==
    /\ (~authenticator.eager /\ ~authenticator.loadOnce) => authenticator.reads = <<>>
    /\ authenticator.loadOnce => \E g \in Goroutines : gor[g].pc # "idle"
    /\ (authenticator.eager /\ authenticator.state # "none") => authenticator.reads # <<>>

\* Every call that got past ensureMaterial saw the outcome of the one load.
LoadObserved ==
    /\ \A g \in Goroutines :
          /\ gor[g].pc = "sign" =>
                /\ ~authenticator.loadErr
                /\ authenticator.didDocument = ReadFile(authenticator.cfg.DIDDocumentPath).doc
                /\ authenticator.privateKey = ReadFile(authenticator.cfg.PrivateKeyPath).key
          /\ (gor[g].pc = "done" /\ authenticator.loadErr) =>
                gor[g].result = Failed("load authentication material")
          /\ (gor[g].pc = "done" /\ ~authenticator.loadErr) => gor[g].result.err = ""
    /\ authenticator.loadErr => signed = <<>>

\* Once loaded, eagerly or by the first use, the material, the error and
\* the files opened stay as they are.
LoadKept ==
    (authenticator.loadOnce \/ authenticator.eager) =>
        /\ authenticator'.didDocument = authenticator.didDocument
        /\ authenticator'.privateKey = authenticator.privateKey
        /\ authenticator'.loadErr = authenticator.loadErr
        /\ authenticator'.reads = authenticator.reads

\* C30: on an Authenticator configured with file paths, over any
\* interleaving of GenerateHeader, GenerateHeaderForce and GenerateJSON, the
\* credential files are loaded at most once, not before the first use unless
\* eager loading was requested, and the outcome of that load (the material
\* or the error) is what every later call observes.
C30_MaterialLoadedOnce ==
    /\ [](LoadedAtMostOnce /\ LoadedOnFirstUse /\ LoadObserved)
    /\ [][LoadKept]_vars

\* Three calls ran on paths given lazily; the files were opened by the
\* first and the later ones signed with what it loaded.
C30_Witness ==
    /\ ~authenticator.eager /\ authenticator.loadOnce
    /\ authenticator.reads = <<"did.json", "key.pem">>
    /\ Len(signed) > 1
    /\ \A g \in Goroutines : gor[g].pc = "done"

(***************************************************************************)
(* The lifetime of nonce records.                                          *)
(***************************************************************************)
\* The calls before the i-th that were accepted for the same (did, nonce).
AcceptedBefore(log, i) ==
    {j \in 1..(i - 1) : log[j].ok /\ log[j].did = log[i].did /\ log[j].nonce = log[i].nonce}

\* C31: a nonce record lives for the TTL counted from the accepted
\* insertion: Validate of the same (did, nonce) returns false while the time
\* since that insertion is at most the TTL and true once it is greater; a
\* rejected re-submission does not extend the lifetime; after every Validate
\* call no record older than the TTL is left in the map.
C31_RecordLivesForTTL ==
    (probe.fn = "nonce" /\ probe.applied) =>
        LET log == probe.output
            ttl == verifier.config.NonceExpiration
        IN /\ \A i \in DOMAIN log :
                  LET earlier == AcceptedBefore(log, i)
                      last == CHOOSE j \in earlier : \A k \in earlier : k <= j
                  IN earlier # {} => log[i].ok = (log[i].at - log[last].at > ttl)
           /\ \A k \in DOMAIN used : log[Len(log)].at - used[k] <= ttl

\* C39: two different (did, nonce) pairs never share a record: accepting one
\* pair never makes Validate return false for another, so every rejection
\* follows an acceptance of the very same pair.
C39_PairsShareNoRecord ==
    probe.fn = "nonce" =>
        \A i \in DOMAIN probe.output :
            ~probe.output[i].ok => AcceptedBefore(probe.output, i) # {}

(***************************************************************************)
(* The verifier's DID cache.                                               *)
(***************************************************************************)
\* An entry for the DID that is no longer fresh at the given time.
ExpiredEntry(cache, did, now) == did \in DOMAIN cache /\ ~(now < cache[did].expiresAt)

\* The first critical section serves a fresh entry without resolving and
\* sends every other access to the resolver.
FreshEntryServed(c) ==
    (call[c].pc = "lookup" /\ call'[c].pc # "lookup") =>
        LET did == Parts(c).DID
        IN IF did \in DOMAIN didCache /\ clock < didCache[did].expiresAt
           THEN /\ call'[c].pc = "verify"
                /\ call'[c].doc = didCache[did].doc
                /\ call'[c].resolved = 0
                /\ didCache' = didCache
           ELSE call'[c].pc = "resolve" /\ call'[c].doc = NoDoc

\* A document is taken from the cache only while its entry is fresh.
CachedDocumentFresh(c) ==
    (call'[c].steps \ call[c].steps) \cap {"hit", "recheck"} # {} =>
        LET did == Parts(c).DID
        IN /\ did \in DOMAIN didCache /\ clock < didCache[did].expiresAt
           /\ call'[c].doc = didCache[did].doc

\* The step with which call c leaves resolveAndCacheDID.
AccessEnds(c) ==
    \/ call[c].pc = "lookup" /\ call'[c].pc = "verify"
    \/ call[c].pc = "resolve" /\ call'[c].pc = "done"
    \/ call[c].pc = "store" /\ call'[c].pc = "verify"

\* C32: a verify call for a DID whose cache entry has not expired uses the
\* cached document and never calls the resolver; the first access at or
\* after the expiry calls the resolver and evicts the expired entry, so no
\* expired entry remains in the cache after that access; an expired document
\* is never used for signature verification.
C32_ExpiredEntryEvictedOnAccess ==
    [][\A c \in Calls :
          /\ FreshEntryServed(c)
          /\ CachedDocumentFresh(c)
          /\ ("expired" \in call[c].steps /\ AccessEnds(c)) =>
                ~ExpiredEntry(didCache', Parts(c).DID, clock)]_vars

\* C32 as the code has it: the expired entry is replaced when the resolver
\* returns a document; when the resolver fails the access stores and deletes
\* nothing, so the expired entry stays in the map, where no call uses it.
C32_ExpiredEntryReplacedOnResolution ==
    [][\A c \in Calls :
          /\ FreshEntryServed(c)
          /\ CachedDocumentFresh(c)
          /\ ("expired" \in call[c].steps /\ call[c].pc = "store" /\ call'[c].pc = "verify") =>
                ~ExpiredEntry(didCache', Parts(c).DID, clock)
          /\ (call[c].pc = "resolve" /\ call'[c].pc = "done") => didCache' = didCache]_vars

\* A call found the entry the other call had written expired, resolved, and
\* left a fresh entry behind.
C32_Witness ==
    \E c, d \in Calls :
        /\ {"expired", "stored"} \subseteq call[c].steps
        /\ "stored" \in call[d].steps /\ "expired" \notin call[d].steps
        /\ Parts(c).DID = Parts(d).DID
        /\ ~ExpiredEntry(didCache, Parts(c).DID, clock)

\* Every cache entry is a document some resolver call returned, with the
\* expiry its writer computed.
CacheWellFormed ==
    \A did \in DOMAIN didCache :
        /\ didCache[did].doc \in {DocOf(d) : d \in DIDs}
        /\ didCache[did].expiresAt \in
              {at + verifier.config.DIDCacheExpiration : at \in 0..clock}
        /\ \E c \in Calls : "stored" \in call[c].steps /\ Parts(c).DID = did

\* Call c passes the second critical section.
PassesStore(c) == call[c].pc = "store" /\ call'[c].pc = "verify"

\* Another call for the same DID has passed the second critical section.
StoredBefore(c) ==
    \E d \in Calls \ {c} :
        /\ Parts(d).DID = Parts(c).DID
        /\ call[d].steps \cap {"stored", "recheck"} # {}

\* C33: when two verify calls for the same DID both miss the cache and both
\* resolve, the cache is never corrupted (every entry is a complete document
\* with its expiry) and after both finish the cache holds the document
\* written by the call that reached the second critical section last: the
\* latest writer wins.
C33_LatestWriterWins ==
    /\ []CacheWellFormed
    /\ [][\A c \in Calls :
             (PassesStore(c) /\ StoredBefore(c)) =>
                 didCache'[Parts(c).DID].doc = call[c].doc]_vars

\* C33 as the code has it: the second critical section looks again, and a
\* call that finds a fresh entry there keeps it and verifies with it; its
\* own document is written only when there is no entry or the entry expired.
C33_FreshEntryKept ==
    /\ []CacheWellFormed
    /\ [][\A c \in Calls :
             PassesStore(c) =>
                 LET did == Parts(c).DID
                 IN IF did \in DOMAIN didCache /\ clock < didCache[did].expiresAt
                    THEN /\ didCache' = didCache
                         /\ call'[c].doc = didCache[did].doc
                    ELSE /\ didCache'[did] =
                               [doc |-> call[c].doc,
                                expiresAt |-> clock + verifier.config.DIDCacheExpiration]
                         /\ \A d \in DOMAIN didCache \ {did} : didCache'[d] = didCache[d]
                         /\ call'[c].doc = call[c].doc]_vars

\* Two calls for one DID both missed and both resolved; the one that came
\* second to the critical section kept the first one's entry.
C33_Witness ==
    \E c, d \in Calls :
        /\ Parts(c).DID = Parts(d).DID
        /\ call[c].resolved = 1 /\ call[d].resolved = 1
        /\ "stored" \in call[c].steps /\ "recheck" \in call[d].steps
        /\ call[c].pc = "done" /\ call[d].pc = "done"
        /\ didCache[Parts(c).DID].doc = call[c].doc

\* The result of a call whose resolver failed.
ResolutionFailed ==
    Failure(NewErrorWithStatus("did_resolution", StatusUnauthorized, "resolve DID document"))

\* No call invokes the resolver twice, and a call served from the cache
\* does not invoke it at all.
ResolvedOncePerCall ==
    \A c \in Calls :
        /\ call[c].resolved <= 1
        /\ call[c].resolved = 1 <=> "resolver" \in call[c].steps
        /\ "hit" \in call[c].steps => call[c].resolved = 0

\* While the resolver of one call runs, the critical sections of the other
\* calls can be entered.
MutexFreeWhileResolving ==
    \A c \in Calls : call[c].pc = "resolve" =>
        \A d \in Calls \ {c} :
            /\ call[d].pc = "lookup" => ENABLED Lookup(d)
            /\ call[d].pc = "store" => ENABLED Store(d)

\* When every call has finished, the cache has one entry for each DID some
\* call resolved, and none for a DID whose resolutions all failed.
CacheConverged ==
    (\A c \in Calls : call[c].pc = "done") =>
        DOMAIN didCache =
            {Parts(c).DID : c \in {d \in Calls : call[d].resolved = 1
                                                 /\ call[d].result # ResolutionFailed}}

\* The resolver call itself writes nothing; a failed one ends the call.
ResolverLeavesCache ==
    \A c \in Calls :
        (call[c].pc = "resolve" /\ call'[c].pc # "resolve") =>
            /\ didCache' = didCache
            /\ call'[c].pc = "done" => call'[c].result = ResolutionFailed

\* C34: N concurrent verify calls for the same DID on a cold cache invoke
\* the resolver at most N times (once per call at most), the cache mutex is
\* never held while the resolver runs, and when all calls have finished the
\* cache holds exactly one entry for that DID; a resolver failure stores
\* nothing and leaves the cache as it was.
C34_ColdCacheConverges ==
    /\ [](ResolvedOncePerCall /\ MutexFreeWhileResolving /\ CacheConverged)
    /\ [][ResolverLeavesCache]_vars

\* Two calls for one DID on a cold cache both invoked the resolver, one of
\* them in vain; the cache ended with the one entry the other wrote.
C34_Witness ==
    \E c, d \in Calls :
        /\ Parts(c).DID = Parts(d).DID
        /\ call[c].pc = "done" /\ call[d].pc = "done"
        /\ call[c].resolved = 1 /\ call[d].resolved = 1
        /\ "expired" \notin call[c].steps \cup call[d].steps
        /\ "stored" \in call[c].steps /\ call[d].result = ResolutionFailed
        /\ DOMAIN didCache = {Parts(c).DID}

(***************************************************************************)
(* What is in flight on one Authenticator.                                 *)
(***************************************************************************)
\* The goroutines that run fn of header for the domain.
Computing(domain) ==
    {g \in Goroutines : /\ gor[g].op \in {"GenerateHeader", "GenerateHeaderForce"}
                        /\ gor[g].domain = domain
                        /\ gor[g].pc \in {"check", "material", "sign", "store", "leave"}}

\* For every domain at most one goroutine runs fn: the one the group names
\* as the key's leader.
OneComputationPerDomain ==
    \A domain \in {gor[g].domain : g \in Goroutines} :
        /\ Cardinality(Computing(domain)) <= 1
        /\ \A g \in Computing(domain) :
              domain \in DOMAIN flights /\ flights[domain].leader = g

\* While a goroutine loads the material or builds the header, the critical
\* sections of cacheMutex can be entered by the others.
CacheMutexFreeWhileBuilding ==
    \A g \in Goroutines : gor[g].pc \in {"material", "sign"} =>
        \A h \in Goroutines \ {g} :
            /\ MayStart(h) => ENABLED header(h, TargetA, FALSE)
            /\ gor[h].pc = "check" => ENABLED DoubleCheck(h)
            /\ gor[h].pc = "store" => ENABLED StoreHeader(h)

\* Loading and building leave both caches as they are; the header is
\* written in a step of its own.
BuildingLeavesCaches ==
    \A g \in Goroutines :
        (gor[g].pc \in {"material", "sign"} /\ gor'[g].pc # gor[g].pc) =>
            tokens' = tokens /\ authHeaders' = authHeaders

\* C35: at any instant, for each domain at most one DIDWba header
\* computation started by GenerateHeader or GenerateHeaderForce is in flight
\* on one authenticator, and at most one credential load is in flight; the
\* cache mutex is held only for lookups and writes, never while the header
\* is being built.
C35_OneInFlightPerDomain ==
    /\ [](OneComputationPerDomain /\ LoadedAtMostOnce /\ CacheMutexFreeWhileBuilding)
    /\ [][BuildingLeavesCaches]_vars

\* Two goroutines asked for one domain and a third for another: one waits
\* for the leader of its domain while both leaders build their headers.
C35_Witness ==
    \E g, h, k \in Goroutines :
        /\ gor[g].domain = gor[h].domain /\ gor[k].domain # gor[g].domain
        /\ gor[g].pc = "sign" /\ gor[h].pc = "wait" /\ gor[k].pc = "sign"
        /\ gor[k].op \in {"GenerateHeader", "GenerateHeaderForce"}
        /\ authenticator.reads # <<>>

\* The errors of fn: the material could not be loaded, or the header could
\* not be built.
FlightErrors == {"load authentication material", "generate header"}

\* fn's error goes to the caller that ran fn and to every waiter of the key,
\* and handing it out changes no cache.
ErrorShared ==
    \A g \in Goroutines :
        (gor[g].pc = "leave" /\ gor'[g].pc = "done" /\ gor[g].val.err \in FlightErrors) =>
            /\ \A h \in {g} \cup flights[gor[g].domain].dups :
                  gor'[h].pc = "done" /\ gor'[h].result = gor[g].val
            /\ gor[g].domain \notin DOMAIN flights'
            /\ tokens' = tokens /\ authHeaders' = authHeaders

\* The step in which fn fails writes to neither cache.
FailureLeavesCaches ==
    \A g \in Goroutines :
        (gor[g].pc \in {"material", "sign"} /\ gor'[g].pc = "leave") =>
            /\ gor'[g].val.err \in FlightErrors
            /\ tokens' = tokens /\ authHeaders' = authHeaders

\* Every waiter is registered with the flight of its domain, and a call
\* that failed in fn left no header for its domain.
WaitersRegistered ==
    \A g \in Goroutines :
        /\ gor[g].pc = "wait" =>
              /\ gor[g].domain \in DOMAIN flights
              /\ g \in flights[gor[g].domain].dups
        /\ (gor[g].pc = "leave" /\ gor[g].val.err \in FlightErrors) =>
              gor[g].domain \notin DOMAIN authHeaders
        /\ (gor[g].pc = "done" /\ gor[g].result.err \in FlightErrors) =>
              gor[g].domain \notin DOMAIN authHeaders

\* C36: when credential loading or header construction fails inside the
\* single-flight section, every caller waiting on the same domain receives
\* that same error, no header is cached for the domain, and both caches are
\* left unchanged.
C36_ErrorSharedWithWaiters ==
    /\ []WaitersRegistered
    /\ [][ErrorShared /\ FailureLeavesCaches]_vars

\* Two forced callers for one domain got the error of the one fn, while
\* the token cache held a server's token that the failure left alone.
C36_Witness ==
    /\ gor[1].op = "UpdateFromResponse" /\ "a.example" \in DOMAIN tokens
    /\ \A g \in {2, 3} :
          /\ gor[g].pc = "done" /\ gor[g].domain = "a.example"
          /\ gor[g].result = Failed("generate header")
    /\ 2 \in gor[3].began.pending
    /\ authHeaders = <<>>

(***************************************************************************)
(* The nonce is consumed before the document is resolved.                  *)
(***************************************************************************)
\* A call is past the nonce step only with its nonce accepted and recorded,
\* and every record in the map was left by a call the validator accepted.
NonceRecordedFirst ==
    /\ \A c \in Calls :
          call[c].steps \cap {"hit", "resolver", "signature"} # {} =>
              /\ call[c].answer = "true"
              /\ Parts(c).DID = call[c].valDID /\ Parts(c).Nonce = call[c].valNonce
    /\ \A k \in DOMAIN used :
          \E c \in Calls : /\ call[c].answer = "true"
                           /\ NonceKey(call[c].valDID, call[c].valNonce) = k
                           /\ used[k] = call[c].valAt

\* A header whose nonce another call consumed at most the TTL ago, whatever
\* became of that call afterwards, is rejected at the nonce step with 401.
ResubmissionRejected ==
    \A d \in Calls :
        (call[d].pc = "nonce" /\ call'[d].pc # "nonce") =>
            \A c \in Calls \ {d} :
                (/\ call[c].answer = "true"
                 /\ call[c].authorization = call[d].authorization
                 /\ clock - call[c].valAt <= verifier.config.NonceExpiration) =>
                    /\ call'[d].pc = "done"
                    /\ call'[d].result =
                          Failure(NewErrorWithStatus("nonce_invalid", StatusUnauthorized,
                                                     "invalid or expired nonce"))
                    /\ used' = used

\* A request that ends before the nonce step, and the steps after the nonce
\* step, leave the nonce records alone.
OnlyNonceStepRecords ==
    \A c \in Calls : (call[c].pc # "nonce" /\ call'[c] # call[c]) => used' = used

\* C38: the verifier records the nonce before it resolves the DID and checks
\* the signature: a DIDWba request that passes the allow-list, parse,
\* timestamp and nonce steps but then fails at DID resolution, signature
\* verification or token issuance has consumed its (did, nonce), so
\* re-submitting the same header within the TTL is rejected at the nonce
\* step with 401; a request rejected at the allow-list, parse or timestamp
\* step consumes no nonce.
C38_NonceConsumedBeforeResolution ==
    /\ []NonceRecordedFirst
    /\ [][ResubmissionRejected /\ OnlyNonceStepRecords]_vars

\* A well-signed request failed at token issuance; the same header sent
\* again was turned away at the nonce step.
C38_Witness ==
    \E c, d \in Calls :
        /\ call[c].authorization = call[d].authorization
        /\ call[c].pc = "done" /\ call[d].pc = "done"
        /\ call[c].answer = "true" /\ "signature" \in call[c].steps
        /\ call[c].result.err.kind = "jwt_config_missing"
        /\ call[d].answer = "false" /\ call[d].result.err.status = StatusUnauthorized
        /\ call[d].steps = {"parse", "timestamp", "validator"}

(***************************************************************************)
(* A header over the lifetime of the verifier.                             *)
(***************************************************************************)
\* C37: with the default windows (timestamp expiration 5 min, future
\* tolerance 1 min, nonce TTL 6 min) and one clock read by the verifier and
\* by the MemoryNonceValidator, which may advance between any two steps of a
\* verify call, a given DIDWba header is accepted at most once over the
\* whole lifetime of the verifier: by the time its nonce record has been
\* evicted its timestamp is already rejected as expired.
C37_HeaderAcceptedOnceEver ==
    \A c, d \in Calls :
        (/\ c # d
         /\ call[c].authorization = call[d].authorization
         /\ call[c].result.ok) => ~call[d].result.ok

(***************************************************************************)
(* The composed system.                                                    *)
(***************************************************************************)
\* The requests whose first attempt carried the given credential.
FirstWith(credential) ==
    {g \in Goroutines : /\ Len(client[g].attempts) >= 1
                        /\ client[g].attempts[1].credential = credential}

\* How the server ended the i-th attempt of g.
EndedAs(g, i) ==
    {probe.output[k].kind : k \in {n \in DOMAIN probe.output :
                                     probe.output[n].by = g /\ probe.output[n].attempt = i}}

\* Of the first requests that shared one DIDWba header, one is accepted and
\* every other is turned away at the nonce step with 401.
SharedHeaderAcceptedOnce ==
    \A g \in Goroutines :
        Len(client[g].attempts) >= 1 =>
            LET sharing == FirstWith(client[g].attempts[1].credential)
                accepted == {h \in sharing : IsSuccess(client[h].attempts[1].status)}
            IN (Cardinality(sharing) >= 2
                /\ client[g].attempts[1].credential.scheme # "Bearer ") =>
                   /\ Cardinality(accepted) = 1
                   /\ \A h \in sharing \ accepted :
                         /\ client[h].attempts[1].status = StatusUnauthorized
                         /\ EndedAs(h, 1) = {"nonce_invalid"}

\* The nonce an attempt carried.
NonceOf(g, i) == parseAuthHeader(client[g].attempts[i].credential).parts.Nonce

\* A request answered 401 is sent once more, with a header whose nonce no
\* other attempt of any request carries.
RetriedWithFreshNonce ==
    \A g \in Goroutines :
        /\ Len(client[g].attempts) <= 2
        /\ (client[g].out = "response"
            /\ client[g].attempts[1].status = StatusUnauthorized) =>
               Len(client[g].attempts) = 2
        /\ Len(client[g].attempts) = 2 =>
               \A h \in Goroutines : \A i \in DOMAIN client[h].attempts :
                   <<h, i>> # <<g, 2>> => NonceOf(h, i) # NonceOf(g, 2)

\* C40: in the composed system (one authenticator, one verifier with
\* MemoryNonceValidator), when N >= 2 concurrent first requests of one client
\* to the same domain share the header of one single-flight computation, the
\* verifier accepts exactly one of them and rejects the other N-1 at the
\* nonce step with 401; each rejected request, sent with Fetch, is re-sent
\* once with a newly signed header carrying a nonce that no other request
\* has used.
C40_SharedHeaderOneAccepted ==
    probe.fn = "server" => (SharedHeaderAcceptedOnce /\ RetriedWithFreshNonce)

====
